---------------------------- MODULE Spec2Model ----------------------------
(***************************************************************************)
(* Model of the venue equipment pipeline: DataStandardizer                 *)
(* (src/data_standardizer.py) over the taxonomy of src/config.py, with the *)
(* grouping of DataExtractor (src/data_extractor.py) before it, the        *)
(* equipment database of DataExporter (src/data_exporter.py) after it and  *)
(* the downloads of VenueWebScraper (src/web_scraper.py).                  *)
(*                                                                         *)
(* Python strings are TLA+ strings, read character by character with       *)
(* SubSeq.  A raw field that JSON may deliver with another type is a       *)
(* tagged value (PyStr, PyNone, PyInt).  A float confidence score is kept  *)
(* in tenths (0.3 is 3).                                                   *)
(***************************************************************************)
EXTENDS Integers, Sequences, FiniteSets, TLC

VARIABLES
    extracted_data,        \* the argument of standardize_equipment_data
    category_list,         \* list(self.standardized_categories): the set's order
    pc,                    \* "download", "downloaded", "extract", "standardize", "merge",
                           \* "validate", "done", "exported", "raised"
    venue_pos,             \* position of the venue in work in VenueNames
    item_pos,              \* position of the next item of the loop in work
    standardized_items,    \* the list of the venue in work
    merged_items,          \* the dict of _merge_duplicate_items, in insertion order
    standardized_data,     \* the result dict: venue -> merged items
    validation_report,     \* the report dict: venue -> issues
    error_log,             \* what logging.error wrote
    raised,                \* the exception that left the call, "" when none did
    venue_pdfs,            \* download_pdfs: the pdf_info entries, venue by venue
    max_concurrent,        \* MAX_CONCURRENT_REQUESTS as read from the environment
    permits,               \* the free permits of the semaphore
    task_pc,               \* per download task: "created", "requesting", "reading", "done"
    task_filepath,         \* per download task: the filepath it has chosen
    results,               \* per download task: what it returned, "" for None
    pdf_cache              \* the files of PDF_CACHE_DIR: filename -> content

\* the state of download_pdfs
download_vars ==
    <<venue_pdfs, max_concurrent, permits, task_pc, task_filepath, results, pdf_cache>>

\* config.py: int(os.getenv('MAX_CONCURRENT_REQUESTS', 5)), the default
MAX_CONCURRENT_REQUESTS == 5

vars ==
    <<extracted_data, category_list, pc, venue_pos, item_pos, standardized_items,
      merged_items,
      standardized_data, validation_report, error_log, raised,
      venue_pdfs, max_concurrent, permits, task_pc, task_filepath, results, pdf_cache>>

\* no download is modelled: the run starts behind download_pdfs
DownloadIdle ==
    /\ venue_pdfs = <<>>
    /\ max_concurrent = MAX_CONCURRENT_REQUESTS
    /\ permits = MAX_CONCURRENT_REQUESTS
    /\ task_pc = <<>>
    /\ task_filepath = <<>>
    /\ results = <<>>
    /\ pdf_cache = <<>>

(***************************************************************************)
(* Python values                                                           *)
(***************************************************************************)
PyStr(s) == [t |-> "str", s |-> s, n |-> 0]
PyInt(n) == [t |-> "int", s |-> "", n |-> n]
PyNone == [t |-> "none", s |-> "", n |-> 0]

\* bool(x) for a str, int or None
Truthy(x) ==
    CASE x.t = "str" -> x.s # ""
      [] x.t = "int" -> x.n # 0
      [] OTHER -> FALSE

RECURSIVE NatStr(_)
NatStr(n) ==
    IF n < 10 THEN SubSeq("0123456789", n + 1, n + 1)
    ELSE NatStr(n \div 10) \o SubSeq("0123456789", (n % 10) + 1, (n % 10) + 1)

IntStr(n) == IF n < 0 THEN "-" \o NatStr(-n) ELSE NatStr(n)

\* str(x): what an f-string prints for the value
Format(x) ==
    CASE x.t = "str" -> x.s
      [] x.t = "int" -> IntStr(x.n)
      [] OTHER -> "None"

(***************************************************************************)
(* Characters and the str methods the code uses                            *)
(***************************************************************************)
UpperChars == "ABCDEFGHIJKLMNOPQRSTUVWXYZ"
LowerChars == "abcdefghijklmnopqrstuvwxyz"
DigitChars == "0123456789"

Ch(s, i) == SubSeq(s, i, i)

Max(a, b) == IF a >= b THEN a ELSE b
Min(a, b) == IF a <= b THEN a ELSE b

RECURSIVE IndexIn(_, _, _)
IndexIn(c, alphabet, i) ==
    IF i > Len(alphabet) THEN 0
    ELSE IF Ch(alphabet, i) = c THEN i
    ELSE IndexIn(c, alphabet, i + 1)

\* the characters of a string
CharsOf(alphabet) == {Ch(alphabet, k) : k \in 1..Len(alphabet)}

UpperSet == CharsOf(UpperChars)
LowerSet == CharsOf(LowerChars)
DigitSet == CharsOf(DigitChars)

IsUpper(c) == c \in UpperSet
IsLower(c) == c \in LowerSet
IsDigit(c) == c \in DigitSet
IsAlpha(c) == IsUpper(c) \/ IsLower(c)
\* \w and \s of the re module
IsWord(c) == IsAlpha(c) \/ IsDigit(c) \/ c = "_"
IsSpace(c) == c \in {" ", "\t", "\n"}

LowerCh(c) == IF IsUpper(c) THEN Ch(LowerChars, IndexIn(c, UpperChars, 1)) ELSE c
UpperCh(c) == IF IsLower(c) THEN Ch(UpperChars, IndexIn(c, LowerChars, 1)) ELSE c

RECURSIVE MapStr(_, _, _)
\* Op applied to each character from position i on
MapStr(Op(_), s, i) ==
    IF i > Len(s) THEN "" ELSE Op(Ch(s, i)) \o MapStr(Op, s, i + 1)

\* str.lower()
lower(s) == MapStr(LowerCh, s, 1)

RECURSIVE TitleFrom(_, _, _)
TitleFrom(s, i, prevCased) ==
    IF i > Len(s) THEN ""
    ELSE LET c == Ch(s, i) IN
         (IF IsAlpha(c) THEN (IF prevCased THEN LowerCh(c) ELSE UpperCh(c)) ELSE c)
            \o TitleFrom(s, i + 1, IsAlpha(c))

\* str.title()
title(s) == TitleFrom(s, 1, FALSE)

RECURSIVE LStrip(_)
LStrip(s) == IF s # "" /\ IsSpace(Ch(s, 1)) THEN LStrip(Tail(s)) ELSE s

RECURSIVE RStrip(_)
RStrip(s) ==
    IF s # "" /\ IsSpace(Ch(s, Len(s))) THEN RStrip(SubSeq(s, 1, Len(s) - 1)) ELSE s

\* str.strip()
strip(s) == RStrip(LStrip(s))

RECURSIVE LStripCh(_, _)
LStripCh(s, c) == IF s # "" /\ Ch(s, 1) = c THEN LStripCh(Tail(s), c) ELSE s

RECURSIVE RStripCh(_, _)
RStripCh(s, c) ==
    IF s # "" /\ Ch(s, Len(s)) = c THEN RStripCh(SubSeq(s, 1, Len(s) - 1), c) ELSE s

\* str.strip(c) for one character c
stripCh(s, c) == RStripCh(LStripCh(s, c), c)

StartsWith(s, p) == Len(p) <= Len(s) /\ SubSeq(s, 1, Len(p)) = p
EndsWith(s, p) == Len(p) <= Len(s) /\ SubSeq(s, Len(s) - Len(p) + 1, Len(s)) = p

\* sub in s
Contains(s, sub) ==
    \E i \in 1..(Len(s) - Len(sub) + 1) : SubSeq(s, i, i + Len(sub) - 1) = sub

InSeq(x, seq) == \E i \in DOMAIN seq : seq[i] = x

(***************************************************************************)
(* Taxonomy: src/config.py and the tables built by DataStandardizer        *)
(***************************************************************************)
\* config.EQUIPMENT_CATEGORIES, a dict: its items in insertion order
EQUIPMENT_CATEGORIES ==
    <<[category |-> "lighting",
       keywords |-> <<"light", "lighting", "led", "fixture", "dimmer", "console",
                     "spotlight", "floodlight", "par", "fresnel", "moving head", "wash",
                     "beam", "strobe", "haze", "fog", "smoke", "gobo", "color changer",
                     "scroller">>],
      [category |-> "sound",
       keywords |-> <<"audio", "sound", "speaker", "microphone", "mic", "mixer",
                     "amplifier", "amp", "subwoofer", "monitor", "pa", "system",
                     "wireless", "di box", "compressor", "equalizer", "reverb", "delay",
                     "console", "board">>],
      [category |-> "video",
       keywords |-> <<"video", "projector", "screen", "display", "monitor", "camera",
                     "switcher", "scaler", "converter", "splitter", "matrix", "recorder",
                     "player", "led wall", "panel", "processor", "hdmi", "sdi", "streaming">>]>>

\* config.MANUFACTURER_MAPPINGS, a dict: its items in insertion order
MANUFACTURER_MAPPINGS ==
    <<[standard_name |-> "shure", name_list |-> <<"shure", "shure inc", "shure incorporated">>],
      [standard_name |-> "yamaha", name_list |-> <<"yamaha", "yamaha corporation", "yamaha music">>],
      [standard_name |-> "qsc", name_list |-> <<"qsc", "qsc audio", "qsc llc">>],
      [standard_name |-> "jbl", name_list |-> <<"jbl", "jbl professional", "harman jbl">>],
      [standard_name |-> "martin", name_list |-> <<"martin", "martin professional", "martin lighting">>],
      [standard_name |-> "chamsys", name_list |-> <<"chamsys", "chamsys ltd">>],
      [standard_name |-> "etc", name_list |-> <<"etc", "electronic theatre controls", "electronic theater controls">>],
      [standard_name |-> "sony", name_list |-> <<"sony", "sony corporation", "sony professional">>],
      [standard_name |-> "panasonic", name_list |-> <<"panasonic", "panasonic corporation">>],
      [standard_name |-> "barco", name_list |-> <<"barco", "barco nv">>],
      [standard_name |-> "christie", name_list |-> <<"christie", "christie digital">>],
      [standard_name |-> "epson", name_list |-> <<"epson", "seiko epson">>],
      [standard_name |-> "avolites", name_list |-> <<"avolites", "avolites ltd">>],
      [standard_name |-> "robe", name_list |-> <<"robe", "robe lighting">>],
      [standard_name |-> "clay paky", name_list |-> <<"clay paky", "claypaky", "clay-paky">>]>>

\* key_mappings of _standardize_spec_key, in insertion order
key_mappings ==
    <<[standard_key |-> "power", variations |-> <<"power", "wattage", "watts", "power consumption", "power draw">>],
      [standard_key |-> "dimensions", variations |-> <<"dimensions", "size", "measurements", "dims">>],
      [standard_key |-> "weight", variations |-> <<"weight", "mass">>],
      [standard_key |-> "frequency_response", variations |-> <<"frequency response", "freq response", "frequency range">>],
      [standard_key |-> "impedance", variations |-> <<"impedance", "ohms">>],
      [standard_key |-> "spl", variations |-> <<"spl", "sound pressure level", "max spl">>],
      [standard_key |-> "throw_distance", variations |-> <<"throw distance", "projection distance">>],
      [standard_key |-> "resolution", variations |-> <<"resolution", "native resolution">>],
      [standard_key |-> "brightness", variations |-> <<"brightness", "lumens", "ansi lumens">>],
      [standard_key |-> "contrast_ratio", variations |-> <<"contrast ratio", "contrast">>],
      [standard_key |-> "connectivity", variations |-> <<"connectivity", "connections", "inputs", "outputs">>]>>

\* _build_equipment_type_mappings: per category, the dict's items in insertion order
equipment_type_mappings ==
    <<[category |-> "lighting",
       mappings |->
        <<<<"led fixture", "LED Fixture">>,
          <<"led light", "LED Fixture">>,
          <<"moving head", "Moving Head">>,
          <<"moving light", "Moving Head">>,
          <<"par can", "PAR Can">>,
          <<"par light", "PAR Can">>,
          <<"spotlight", "Spotlight">>,
          <<"floodlight", "Floodlight">>,
          <<"fresnel", "Fresnel">>,
          <<"wash light", "Wash Light">>,
          <<"beam light", "Beam Light">>,
          <<"strobe", "Strobe">>,
          <<"dimmer", "Dimmer">>,
          <<"lighting console", "Lighting Console">>,
          <<"dmx controller", "DMX Controller">>>>],
      [category |-> "sound",
       mappings |->
        <<<<"speaker", "Speaker">>,
          <<"loudspeaker", "Speaker">>,
          <<"microphone", "Microphone">>,
          <<"mic", "Microphone">>,
          <<"wireless microphone", "Wireless Microphone">>,
          <<"wireless mic", "Wireless Microphone">>,
          <<"mixer", "Audio Mixer">>,
          <<"mixing console", "Audio Mixer">>,
          <<"amplifier", "Amplifier">>,
          <<"power amplifier", "Power Amplifier">>,
          <<"subwoofer", "Subwoofer">>,
          <<"monitor", "Monitor Speaker">>,
          <<"di box", "DI Box">>,
          <<"compressor", "Compressor">>,
          <<"equalizer", "Equalizer">>,
          <<"reverb", "Reverb Unit">>>>],
      [category |-> "video",
       mappings |->
        <<<<"projector", "Projector">>,
          <<"lcd projector", "LCD Projector">>,
          <<"led projector", "LED Projector">>,
          <<"screen", "Projection Screen">>,
          <<"projection screen", "Projection Screen">>,
          <<"display", "Display">>,
          <<"monitor", "Video Monitor">>,
          <<"led wall", "LED Wall">>,
          <<"led panel", "LED Panel">>,
          <<"camera", "Camera">>,
          <<"video camera", "Video Camera">>,
          <<"switcher", "Video Switcher">>,
          <<"video mixer", "Video Switcher">>,
          <<"scaler", "Video Scaler">>,
          <<"converter", "Video Converter">>,
          <<"splitter", "Video Splitter">>,
          <<"matrix", "Video Matrix">>>>]>>

MapSeq(Op(_), seq) == [i \in DOMAIN seq |-> Op(seq[i])]

\* _build_manufacturer_variations: standard name -> lowercased names
manufacturer_variations ==
    [i \in DOMAIN MANUFACTURER_MAPPINGS |->
        [standard_name |-> MANUFACTURER_MAPPINGS[i].standard_name,
         variations |-> MapSeq(lower, MANUFACTURER_MAPPINGS[i].name_list)]]

\* the keys of EQUIPMENT_CATEGORIES
CategoryNames == {EQUIPMENT_CATEGORIES[i].category : i \in DOMAIN EQUIPMENT_CATEGORIES}

(***************************************************************************)
(* fuzzywuzzy: process.extractOne(query, choices, scorer=fuzz.ratio)       *)
(***************************************************************************)
\* utils.full_process: non-alphanumerics to spaces, lower case, strip
NonWordToSpace(c) == IF IsWord(c) THEN c ELSE " "
full_process(s) == strip(lower(MapStr(NonWordToSpace, s, 1)))

RECURSIVE LcsRow(_, _, _, _)
\* one row of the longest-common-subsequence table: acc[j+1] is the entry of column j
LcsRow(prev, c, t, acc) ==
    LET j == Len(acc) IN
    IF j > Len(t) THEN acc
    ELSE LcsRow(prev, c, t,
                Append(acc, IF Ch(t, j) = c THEN prev[j] + 1
                            ELSE Max(prev[j + 1], acc[j])))

RECURSIVE LcsRows(_, _, _, _)
LcsRows(s, t, i, prev) ==
    IF i > Len(s) THEN prev[Len(t) + 1]
    ELSE LET row == LcsRow(prev, Ch(s, i), t, <<0>>)
         IN  IF Len(row) = Len(prev) THEN LcsRows(s, t, i + 1, row) ELSE -1

\* the number of matched characters of the two strings
Matches(s, t) == LcsRows(s, t, 1, [j \in 1..(Len(t) + 1) |-> 0])

\* int(round(x)) for x = num / den, halves to the even neighbour
RoundDiv(num, den) ==
    LET q == num \div den
        r == num % den
    IN  IF 2 * r < den THEN q
        ELSE IF 2 * r > den THEN q + 1
        ELSE IF q % 2 = 0 THEN q ELSE q + 1

\* fuzz.ratio: 100 for equal strings, 0 for an empty one, else round(100 * 2M / T)
fuzz_ratio(s1, s2) ==
    IF s1 = s2 THEN 100
    ELSE IF s1 = "" \/ s2 = "" THEN 0
    ELSE RoundDiv(200 * Matches(s1, s2), Len(s1) + Len(s2))

RECURSIVE BestOf(_, _, _, _)
\* max(..., key=score): the first choice holding the highest score
BestOf(query, choices, i, best) ==
    IF i > Len(choices) THEN best
    ELSE LET sc == fuzz_ratio(query, full_process(choices[i])) IN
         BestOf(query, choices, i + 1,
                IF best.score < sc THEN [choice |-> choices[i], score |-> sc] ELSE best)

\* process.extractOne; score -1 stands for None (no choices)
extractOne(query, choices) ==
    BestOf(full_process(query), choices, 1, [choice |-> "", score |-> -1])

(***************************************************************************)
(* The re.sub calls of the normalizers                                     *)
(***************************************************************************)
RECURSIVE RunEnd(_, _, _)
\* the last position of the run of characters matching In that holds position i
RunEnd(In(_), s, i) ==
    IF i + 1 <= Len(s) /\ In(Ch(s, i + 1)) THEN RunEnd(In, s, i + 1) ELSE i

RECURSIVE RemoveWords(_, _, _)
\* re.sub(r'\b(w1|w2|...)\b', '', s): a whole run of \w characters that is one
\* of the words goes; the strings it is applied to are lower case already
RemoveWords(s, words, i) ==
    IF i > Len(s) THEN ""
    ELSE IF IsWord(Ch(s, i))
         THEN LET j == RunEnd(IsWord, s, i)
                  w == SubSeq(s, i, j)
              IN  (IF w \in words THEN "" ELSE w) \o RemoveWords(s, words, j + 1)
         ELSE Ch(s, i) \o RemoveWords(s, words, i + 1)

RECURSIVE SubChars(_, _, _, _)
\* re.sub of a one-character class: each character matching Bad becomes repl
SubChars(Bad(_), repl, s, i) ==
    IF i > Len(s) THEN ""
    ELSE (IF Bad(Ch(s, i)) THEN repl ELSE Ch(s, i)) \o SubChars(Bad, repl, s, i + 1)

RECURSIVE SubRuns(_, _, _, _)
\* re.sub of a class followed by +: each run of characters matching In becomes repl
SubRuns(In(_), repl, s, i) ==
    IF i > Len(s) THEN ""
    ELSE IF In(Ch(s, i))
         THEN repl \o SubRuns(In, repl, s, RunEnd(In, s, i) + 1)
         ELSE Ch(s, i) \o SubRuns(In, repl, s, i + 1)

NotWordNotSpace(c) == ~IsWord(c) /\ ~IsSpace(c)
NotWord(c) == ~IsWord(c)
IsUnderscore(c) == c = "_"
\* outside [\w\s\-/]
NotModelChar(c) == ~IsWord(c) /\ ~IsSpace(c) /\ c \notin {"-", "/"}

(***************************************************************************)
(* Field normalizers                                                       *)
(***************************************************************************)
\* a truthy value that is no str: .strip() or .lower() on it raises AttributeError
NotStr(x) == Truthy(x) /\ x.t # "str"

CorporateSuffixes ==
    {"inc", "incorporated", "corp", "corporation", "ltd", "limited", "llc"}

all_standard_names == MapSeq(LAMBDA r : r.standard_name, manufacturer_variations)

RECURSIVE DirectManufacturer(_, _)
\* the loop of the direct mapping check: the first standard name one of whose
\* variations is manufacturer_clean, "" when there is none
DirectManufacturer(manufacturer_clean, i) ==
    IF i > Len(manufacturer_variations) THEN ""
    ELSE IF InSeq(manufacturer_clean, manufacturer_variations[i].variations)
         THEN manufacturer_variations[i].standard_name
         ELSE DirectManufacturer(manufacturer_clean, i + 1)

\* _standardize_manufacturer with the fuzzy match accepted above 80 only
_standardize_manufacturer_above_80(manufacturer) ==
    IF ~Truthy(manufacturer) THEN "Unknown"
    ELSE LET manufacturer_clean == lower(strip(manufacturer.s))
             direct == DirectManufacturer(manufacturer_clean, 1)
             match == extractOne(manufacturer_clean, all_standard_names)
             cleaned == strip(SubChars(NotWordNotSpace, "",
                                  RemoveWords(manufacturer_clean, CorporateSuffixes, 1), 1))
         IN  IF direct # "" THEN title(direct)
             ELSE IF match.score > 80 THEN title(match.choice)
             ELSE IF cleaned # "" THEN title(cleaned) ELSE "Unknown"

_standardize_manufacturer(manufacturer) ==
    IF ~Truthy(manufacturer) THEN "Unknown"
    ELSE LET manufacturer_clean == lower(strip(manufacturer.s))
             direct == DirectManufacturer(manufacturer_clean, 1)
             match == extractOne(manufacturer_clean, all_standard_names)
             cleaned == strip(SubChars(NotWordNotSpace, "",
                                  RemoveWords(manufacturer_clean, CorporateSuffixes, 1), 1))
         IN  IF direct # "" THEN title(direct)
             ELSE IF match.score >= 80 THEN title(match.choice)
             ELSE IF cleaned # "" THEN title(cleaned) ELSE "Unknown"

\* re.sub(r'^(model\s+|mod\s+)', '', s, flags=re.IGNORECASE)
StripModelPrefix(s) ==
    LET l == lower(s)
        AfterWord(n) ==
            IF n + 1 <= Len(s) /\ IsSpace(Ch(s, n + 1))
            THEN SubSeq(s, RunEnd(IsSpace, s, n + 1) + 1, Len(s))
            ELSE s
    IN  IF StartsWith(l, "model") /\ AfterWord(5) # s THEN AfterWord(5)
        ELSE IF StartsWith(l, "mod") THEN AfterWord(3)
        ELSE s

RECURSIVE RunStart(_, _, _)
\* the first position of the run of characters matching In that holds position i
RunStart(In(_), s, i) ==
    IF i - 1 >= 1 /\ In(Ch(s, i - 1)) THEN RunStart(In, s, i - 1) ELSE i

\* re.sub(r'\s+(series|ser)$', '', s, flags=re.IGNORECASE)
StripModelSuffix(s) ==
    LET l == lower(s)
        BeforeWord(n) ==
            LET k == Len(s) - n IN
            IF k >= 1 /\ IsSpace(Ch(s, k))
            THEN SubSeq(s, 1, RunStart(IsSpace, s, k) - 1)
            ELSE s
    IN  IF EndsWith(l, "series") /\ BeforeWord(6) # s THEN BeforeWord(6)
        ELSE IF EndsWith(l, "ser") THEN BeforeWord(3)
        ELSE s

_standardize_model(model) ==
    IF ~Truthy(model) THEN "Unknown"
    ELSE LET stripped == StripModelSuffix(StripModelPrefix(strip(model.s)))
             model_clean == SubChars(NotModelChar, "", SubRuns(IsSpace, " ", stripped, 1), 1)
         IN  IF model_clean # "" THEN strip(model_clean) ELSE "Unknown"

RECURSIVE InferFrom_last_wins(_, _)
\* the loop over the categories with the last hit returned instead of the first
InferFrom_last_wins(type_lower, i) ==
    IF i > Len(EQUIPMENT_CATEGORIES) THEN ""
    ELSE IF InferFrom_last_wins(type_lower, i + 1) # ""
         THEN InferFrom_last_wins(type_lower, i + 1)
         ELSE IF \E k \in DOMAIN EQUIPMENT_CATEGORIES[i].keywords :
                     Contains(type_lower, EQUIPMENT_CATEGORIES[i].keywords[k])
              THEN EQUIPMENT_CATEGORIES[i].category
              ELSE ""

RECURSIVE InferFrom(_, _)
InferFrom(type_lower, i) ==
    IF i > Len(EQUIPMENT_CATEGORIES) THEN ""
    ELSE IF \E k \in DOMAIN EQUIPMENT_CATEGORIES[i].keywords :
                Contains(type_lower, EQUIPMENT_CATEGORIES[i].keywords[k])
         THEN EQUIPMENT_CATEGORIES[i].category
         ELSE InferFrom(type_lower, i + 1)

\* "" stands for None
_infer_category_from_type(equipment_type) == InferFrom(lower(equipment_type), 1)

\* category_list is list(self.standardized_categories): the set's iteration order
\* _standardize_category with the last line returning the cleaned input
\* instead of "other"
_standardize_category_unmatched_kept(category, equipment_type, categories) ==
    LET category_clean == lower(strip(category.s))
        inferred_category ==
            IF Truthy(equipment_type) THEN _infer_category_from_type(equipment_type.s)
            ELSE ""
        match == extractOne(category_clean, categories)
    IN  IF category_clean \in CategoryNames THEN category_clean
        ELSE IF inferred_category # "" THEN inferred_category
        ELSE IF match.score >= 70 THEN match.choice
        ELSE category_clean

\* _standardize_category with the fuzzy match of the category string tried
\* before the inference from the equipment type
_standardize_category_fuzzy_first(category, equipment_type, categories) ==
    LET category_clean == lower(strip(category.s))
        inferred_category ==
            IF Truthy(equipment_type) THEN _infer_category_from_type(equipment_type.s)
            ELSE ""
        match == extractOne(category_clean, categories)
    IN  IF category_clean \in CategoryNames THEN category_clean
        ELSE IF match.score >= 70 THEN match.choice
        ELSE IF inferred_category # "" THEN inferred_category
        ELSE "other"

\* categories: the list that list(self.standardized_categories) returned
_standardize_category(category, equipment_type, categories) ==
    LET category_clean == lower(strip(category.s))
        inferred_category ==
            IF Truthy(equipment_type) THEN _infer_category_from_type(equipment_type.s)
            ELSE ""
        match == extractOne(category_clean, categories)
    IN  IF category_clean \in CategoryNames THEN category_clean
        ELSE IF inferred_category # "" THEN inferred_category
        ELSE IF match.score >= 70 THEN match.choice
        ELSE "other"

GenericTypeWords == {"system", "device", "unit", "equipment"}

\* self.equipment_type_mappings[category], <<>> when category is no key of it
CategoryMappings(category) ==
    LET hits == {i \in DOMAIN equipment_type_mappings :
                    equipment_type_mappings[i].category = category}
    IN  IF hits = {} THEN <<>>
        ELSE equipment_type_mappings[CHOOSE i \in hits : TRUE].mappings

\* dict lookup in a sequence of <<key, value>> items; "" when the key is absent
Lookup(items, key) ==
    LET hits == {i \in DOMAIN items : items[i][1] = key}
    IN  IF hits = {} THEN "" ELSE items[CHOOSE i \in hits : TRUE][2]

_standardize_equipment_type(equipment_type, category) ==
    IF ~Truthy(equipment_type) THEN "Unknown"
    ELSE LET type_clean == lower(strip(equipment_type.s))
             category_mappings == CategoryMappings(category)
             match == extractOne(type_clean, MapSeq(LAMBDA kv : kv[1], category_mappings))
             cleaned == strip(SubRuns(IsSpace, " ",
                                SubChars(NotWordNotSpace, " ",
                                   RemoveWords(type_clean, GenericTypeWords, 1), 1), 1))
         IN  IF Lookup(category_mappings, type_clean) # ""
                THEN Lookup(category_mappings, type_clean)
             ELSE IF category_mappings # <<>> /\ match.score >= 75
                THEN Lookup(category_mappings, match.choice)
             ELSE IF cleaned # "" THEN title(cleaned) ELSE "Unknown"

\* an id built without .lower()
_generate_item_id_case_kept(manufacturer, model, venue) ==
    LET id_string == manufacturer \o "_" \o model \o "_" \o venue
    IN  stripCh(SubRuns(IsUnderscore, "_", SubChars(NotWord, "_", id_string, 1), 1), "_")

_generate_item_id(manufacturer, model, venue) ==
    LET id_string == lower(manufacturer \o "_" \o model \o "_" \o venue)
    IN  stripCh(SubRuns(IsUnderscore, "_", SubChars(NotWord, "_", id_string, 1), 1), "_")

(***************************************************************************)
(* Specification normalizer                                                *)
(***************************************************************************)
RECURSIVE KeyFor(_, _)
\* the loop over key_mappings: the first standard key one of whose variations
\* is key_clean, "" when there is none
KeyFor(key_clean, i) ==
    IF i > Len(key_mappings) THEN ""
    ELSE IF InSeq(key_clean, key_mappings[i].variations) THEN key_mappings[i].standard_key
    ELSE KeyFor(key_clean, i + 1)

_standardize_spec_key(key) ==
    IF key = "" THEN "unknown"
    ELSE LET key_clean == lower(strip(key))
         IN  IF KeyFor(key_clean, 1) # "" THEN KeyFor(key_clean, 1)
             ELSE SubRuns(IsSpace, "_", SubChars(NotWordNotSpace, "_", key_clean, 1), 1)

RECURSIVE ParseNat(_, _)
\* int(s) for a string of digits; acc is the value of the digits read
ParseNat(s, acc) ==
    IF s = "" THEN acc
    ELSE ParseNat(Tail(s), 10 * acc + (IndexIn(Ch(s, 1), DigitChars, 1) - 1))

RECURSIVE Pow10(_)
Pow10(k) == IF k = 0 THEN 1 ELSE 10 * Pow10(k - 1)

\* position q is inside s and holds a digit
DigitAt(s, q) == q >= 1 /\ q <= Len(s) /\ IsDigit(Ch(s, q))

\* the end of \d+(?:\.\d+)? matched greedily from the digit at position q
NumberEnd(s, q) ==
    LET e == RunEnd(IsDigit, s, q)
    IN  IF e + 2 <= Len(s) /\ Ch(s, e + 1) = "." /\ IsDigit(Ch(s, e + 2))
        THEN RunEnd(IsDigit, s, e + 2) ELSE e

\* the position after \s* matched from position q
AfterSpaces(s, q) ==
    IF q <= Len(s) /\ IsSpace(Ch(s, q)) THEN RunEnd(IsSpace, s, q) + 1 ELSE q

RECURSIVE FirstAlt(_, _, _, _)
\* an alternation under re.IGNORECASE at position q: the first alternative, in
\* the order the regex tries them, that the text holds there; "" when none does
FirstAlt(l, q, alts, i) ==
    IF i > Len(alts) THEN ""
    ELSE IF SubSeq(l, q, Min(Len(l), q + Len(alts[i]) - 1)) = alts[i] THEN alts[i]
    ELSE FirstAlt(l, q, alts, i + 1)

\* the number read at positions q..e: digits, scale (number of decimals), value
\* num / 10^scale
NumberAt(s, q, e) ==
    LET d == RunEnd(IsDigit, s, q)
        frac == IF d < e THEN SubSeq(s, d + 2, e) ELSE ""
    IN  [num |-> ParseNat(SubSeq(s, q, d) \o frac, 0), scale |-> Len(frac)]

RECURSIVE SearchNumberUnit(_, _, _)
\* re.search(r'(\d+(?:\.\d+)?)\s*(<units>)', s, re.IGNORECASE): the leftmost match
SearchNumberUnit(s, units, p) ==
    IF p > Len(s) THEN [found |-> FALSE, num |-> 0, scale |-> 0, unit |-> ""]
    ELSE IF DigitAt(s, p)
              /\ FirstAlt(lower(s), AfterSpaces(s, NumberEnd(s, p) + 1), units, 1) # ""
         THEN [found |-> TRUE,
               num |-> NumberAt(s, p, NumberEnd(s, p)).num,
               scale |-> NumberAt(s, p, NumberEnd(s, p)).scale,
               unit |-> FirstAlt(lower(s), AfterSpaces(s, NumberEnd(s, p) + 1), units, 1)]
         ELSE SearchNumberUnit(s, units, p + 1)

\* (w|watts?|kw), (kg|lbs?|pounds?) and (khz?|hz) in the order the regex tries them
PowerUnits == <<"w", "watts", "watt", "kw">>
WeightUnits == <<"kg", "lbs", "lb", "pounds", "pound">>
HighFreqUnits == <<"khz", "kh", "hz">>

RECURSIVE DropTrailingZeros(_)
DropTrailingZeros(digits) ==
    IF Len(digits) > 1 /\ Ch(digits, Len(digits)) = "0"
    THEN DropTrailingZeros(SubSeq(digits, 1, Len(digits) - 1)) ELSE digits

RECURSIVE ZeroPad(_, _)
ZeroPad(digits, width) == IF Len(digits) >= width THEN digits ELSE ZeroPad("0" \o digits, width)

\* repr() of the float num / 10^scale, for a value a float holds exactly
FloatRepr(num, scale) ==
    LET whole == num \div Pow10(scale)
        frac == IF scale = 0 THEN "0" ELSE ZeroPad(NatStr(num % Pow10(scale)), scale)
    IN  NatStr(whole) \o "." \o DropTrailingZeros(frac)

\* f"{x:.1f}" for x = num / 10^scale
FormatOneDecimal(num, scale) ==
    LET tenths == IF scale = 0 THEN 10 * num ELSE RoundDiv(num, Pow10(scale - 1))
    IN  NatStr(tenths \div 10) \o "." \o NatStr(tenths % 10)

\* the factor 0.453592 of the pounds conversion, in millionths
PoundsToKgMillionths == 453592

\* the low bound of the frequency regex, (\d+)\s*hz?\s*-\s*, matched from the
\* digit at p: the position after it, 0 when it does not match
AfterLowFreq(s, p) ==
    LET l == lower(s)
        h == AfterSpaces(s, RunEnd(IsDigit, s, p) + 1)
        z == IF h + 1 <= Len(s) /\ Ch(l, h + 1) = "z" THEN h + 2 ELSE h + 1
        dash == AfterSpaces(s, z)
    IN  IF h <= Len(s) /\ Ch(l, h) = "h" /\ dash <= Len(s) /\ Ch(s, dash) = "-"
        THEN AfterSpaces(s, dash + 1) ELSE 0

\* the match object of the frequency regex for the attempt at p: q is the
\* position after the low bound (0 when it does not match), e the end of the
\* high number (0 when there is none), unit the unit read after it
FrequencyMatch(s, p, q, e, unit, high) ==
    [found |-> unit # "",
     low |-> ParseNat(SubSeq(s, p, RunEnd(IsDigit, s, p)), 0),
     num |-> high.num, scale |-> high.scale, unit |-> unit]

FrequencyUnit(s, e) ==
    IF e > 0 THEN FirstAlt(lower(s), AfterSpaces(s, e + 1), HighFreqUnits, 1) ELSE ""

FrequencyHigh(s, p, q, e) ==
    FrequencyMatch(s, p, q, e, FrequencyUnit(s, e),
                   IF e > 0 THEN NumberAt(s, q, e) ELSE [num |-> 0, scale |-> 0])

FrequencyLow(s, p, q) == FrequencyHigh(s, p, q, IF DigitAt(s, q) THEN NumberEnd(s, q) ELSE 0)

\* the frequency regex tried at position p
FrequencyAt(s, p) == FrequencyLow(s, p, IF DigitAt(s, p) THEN AfterLowFreq(s, p) ELSE 0)

RECURSIVE SearchFrequencyFrom(_, _, _)
SearchFrequencyFrom(s, p, attempt) ==
    IF attempt.found \/ p >= Len(s) THEN attempt
    ELSE SearchFrequencyFrom(s, p + 1, FrequencyAt(s, p + 1))

\* re.search(r'(\d+)\s*hz?\s*-\s*(\d+(?:\.\d+)?)\s*(khz?|hz)', s, re.IGNORECASE):
\* the leftmost match from position p on
SearchFrequency(s, p) ==
    IF p > Len(s) THEN [found |-> FALSE, low |-> 0, num |-> 0, scale |-> 0, unit |-> ""]
    ELSE SearchFrequencyFrom(s, p, FrequencyAt(s, p))

\* the branch "if power_match" of the power standardization
PowerValue(value_str, power_match) ==
    IF power_match.found
    THEN FloatRepr(IF StartsWith(power_match.unit, "kw")
                   THEN power_match.num * 1000 ELSE power_match.num,
                   power_match.scale) \o "W"
    ELSE value_str

\* the branch "if weight_match" of the weight standardization
WeightValue(value_str, weight_match) ==
    IF weight_match.found
    THEN (IF StartsWith(weight_match.unit, "lb") \/ StartsWith(weight_match.unit, "pound")
          THEN FormatOneDecimal(weight_match.num * PoundsToKgMillionths,
                                weight_match.scale + 6)
          ELSE FormatOneDecimal(weight_match.num, weight_match.scale))
         \o "kg"
    ELSE value_str

\* the branch "if freq_match" of the frequency standardization
FrequencyValue(value_str, freq_match) ==
    IF freq_match.found
    THEN NatStr(freq_match.low) \o "Hz - "
         \o NatStr((IF StartsWith(freq_match.unit, "k")
                    THEN freq_match.num * 1000 ELSE freq_match.num)
                   \div Pow10(freq_match.scale))
         \o "Hz"
    ELSE value_str

\* a value normalizer that converts no unit
StandardizeValueStr_unconverted(value_str, key) == value_str

\* the body of _standardize_spec_value after value_str = str(value).strip()
StandardizeValueStr(value_str, key) ==
    IF key = "power"
    THEN PowerValue(value_str, SearchNumberUnit(value_str, PowerUnits, 1))
    ELSE IF key = "weight"
    THEN WeightValue(value_str, SearchNumberUnit(value_str, WeightUnits, 1))
    ELSE IF key = "frequency_response"
    THEN FrequencyValue(value_str, SearchFrequency(value_str, 1))
    ELSE value_str

\* the model reads numbers whose float arithmetic is exact (FloatRepr)
_standardize_spec_value(value, key) ==
    IF ~Truthy(value) THEN "" ELSE StandardizeValueStr(strip(Format(value)), key)

\* one assignment standardized_specs[std_key] = std_value on a dict kept as
\* its items in insertion order
DictSet(items, key, value) ==
    IF \E i \in DOMAIN items : items[i][1] = key
    THEN [i \in DOMAIN items |-> IF items[i][1] = key THEN <<key, value>> ELSE items[i]]
    ELSE Append(items, <<key, value>>)

RECURSIVE StandardizeSpecsFrom(_, _, _)
StandardizeSpecsFrom(specifications, i, standardized_specs) ==
    IF i > Len(specifications) THEN standardized_specs
    ELSE LET std_key == _standardize_spec_key(specifications[i][1])
             std_value == _standardize_spec_value(specifications[i][2], std_key)
         IN  StandardizeSpecsFrom(specifications, i + 1,
                                  DictSet(standardized_specs, std_key, std_value))

\* specifications: the raw dict as <<key, value>> items in insertion order
_standardize_specifications(specifications) ==
    StandardizeSpecsFrom(specifications, 1, <<>>)

RECURSIVE DictUpdate_first_kept(_, _, _)
\* an update that keeps the value a key already has and only adds new keys
DictUpdate_first_kept(items, other, i) ==
    IF i > Len(other) THEN items
    ELSE DictUpdate_first_kept(
             IF \E n \in DOMAIN items : items[n][1] = other[i][1] THEN items
             ELSE Append(items, other[i]),
             other, i + 1)

RECURSIVE DictUpdate(_, _, _)
\* dict.update(other)
DictUpdate(items, other, i) ==
    IF i > Len(other) THEN items
    ELSE DictUpdate(DictSet(items, other[i][1], other[i][2]), other, i + 1)

(***************************************************************************)
(* Record standardizer                                                     *)
(***************************************************************************)
\* the first attribute lookup of _standardize_single_item that fails on a
\* truthy value that is no str, "" when none does: manufacturer.strip(),
\* model.strip(), category.strip(), equipment_type.lower() (reached when the
\* category is no direct match), equipment_type.strip()
FailingAttribute(item) ==
    IF NotStr(item.manufacturer) \/ NotStr(item.model) \/ NotStr(item.category) THEN "strip"
    ELSE IF NotStr(item.equipment_type)
         THEN (IF lower(strip(item.category.s)) \in CategoryNames THEN "strip" ELSE "lower")
         ELSE ""

\* _standardize_single_item(item) raises
Raises_standardize_single_item(item) == FailingAttribute(item) # ""

\* the message logging.error writes in the except branch
ErrorMessage(item) ==
    "Error standardizing item " \o Format(item.manufacturer) \o " " \o Format(item.model)
        \o ": 'int' object has no attribute '" \o FailingAttribute(item) \o "'"

\* the note appended when the standardized value differs from the original
NoteIfChanged(field, original, standardized) ==
    IF original.t = "str" /\ original.s = standardized THEN <<>>
    ELSE <<field \o " normalized: " \o Format(original) \o " -> " \o standardized>>

\* a constructor that repairs the quantity: anything but a positive int becomes 1
StandardizedEquipmentItem_quantity_repaired(item, standardized_manufacturer, standardized_model, standardized_category, standardized_type) ==
    [id |-> _generate_item_id(standardized_manufacturer, standardized_model, item.venue),
     manufacturer |-> standardized_manufacturer,
     model |-> standardized_model,
     quantity |-> IF item.quantity.t = "int" /\ item.quantity.n > 0 THEN item.quantity
                  ELSE PyInt(1),
     equipment_type |-> standardized_type,
     category |-> standardized_category,
     venue |-> item.venue,
     specifications |-> _standardize_specifications(item.specifications),
     features |-> <<>>,
     applications |-> <<>>,
     compatibility |-> <<>>,
     source_documents |-> <<item.source_document>>,
     confidence_score |-> item.confidence_score,
     standardization_notes |->
         NoteIfChanged("Manufacturer", item.manufacturer, standardized_manufacturer)
         \o NoteIfChanged("Model", item.model, standardized_model)
         \o NoteIfChanged("Category", item.category, standardized_category)
         \o NoteIfChanged("Equipment type", item.equipment_type, standardized_type)]

\* the StandardizedEquipmentItem(...) built from the four standardized fields
StandardizedEquipmentItem(item, standardized_manufacturer, standardized_model, standardized_category, standardized_type) ==
    [id |-> _generate_item_id(standardized_manufacturer, standardized_model, item.venue),
     manufacturer |-> standardized_manufacturer,
     model |-> standardized_model,
     quantity |-> item.quantity,
     equipment_type |-> standardized_type,
     category |-> standardized_category,
     venue |-> item.venue,
     specifications |-> _standardize_specifications(item.specifications),
     features |-> <<>>,
     applications |-> <<>>,
     compatibility |-> <<>>,
     source_documents |-> <<item.source_document>>,
     confidence_score |-> item.confidence_score,
     standardization_notes |->
         NoteIfChanged("Manufacturer", item.manufacturer, standardized_manufacturer)
         \o NoteIfChanged("Model", item.model, standardized_model)
         \o NoteIfChanged("Category", item.category, standardized_category)
         \o NoteIfChanged("Equipment type", item.equipment_type, standardized_type)]

\* the equipment type is standardized within the standardized category
WithStandardizedType(item, standardized_manufacturer, standardized_model, standardized_category) ==
    StandardizedEquipmentItem(
        item, standardized_manufacturer, standardized_model, standardized_category,
        _standardize_equipment_type(item.equipment_type, standardized_category))

_standardize_single_item(item, categories) ==
    WithStandardizedType(
        item,
        _standardize_manufacturer(item.manufacturer),
        _standardize_model(item.model),
        _standardize_category(item.category, item.equipment_type, categories))

(***************************************************************************)
(* Merger                                                                  *)
(***************************************************************************)
\* the merge key without .lower()
merge_key_case_kept(item) == item.manufacturer \o "_" \o item.model \o "_" \o item.venue

merge_key(item) == lower(item.manufacturer \o "_" \o item.model \o "_" \o item.venue)

\* a + b raises TypeError unless both are int or both are str
AddRaises(a, b) == ~(a.t = b.t /\ a.t \in {"int", "str"})

\* a + b
PyAdd(a, b) == IF a.t = "int" THEN PyInt(a.n + b.n) ELSE PyStr(a.s \o b.s)

SeqToSet(seq) == {seq[i] : i \in DOMAIN seq}

\* the lists list(set(...)) can return: the elements in any order
ListsOfSet(S) ==
    {l \in [1..Cardinality(S) -> S] : \A a, b \in 1..Cardinality(S) : a # b => l[a] # l[b]}

\* the confidence of the record merged last instead of the maximum
PyMax_last(a, b) == b

\* max(a, b) of Python: b only when it is greater
PyMax(a, b) == IF b > a THEN b ELSE a

\* a merge that keeps only the notes and the documents of the first record
MergeInto_first_kept(existing, item, docs) ==
    [existing EXCEPT
        !.quantity = PyAdd(existing.quantity, item.quantity),
        !.specifications = DictUpdate(existing.specifications, item.specifications, 1),
        !.confidence_score = PyMax(existing.confidence_score, item.confidence_score)]

\* the body of the branch "merge_key in merged_items"; docs is the list that
\* list(set(existing.source_documents)) returned
MergeInto(existing, item, docs) ==
    [existing EXCEPT
        !.quantity = PyAdd(existing.quantity, item.quantity),
        !.specifications = DictUpdate(existing.specifications, item.specifications, 1),
        !.source_documents = docs,
        !.standardization_notes = existing.standardization_notes \o item.standardization_notes,
        !.confidence_score = PyMax(existing.confidence_score, item.confidence_score)]

\* a dict in which no key is ever found: every record opens an entry of its own
KeyIndex_never_found(merged, key) == 0

\* position of key in the dict merged_items, 0 when absent
KeyIndex(merged, key) ==
    IF \E k \in DOMAIN merged : merged[k].key = key
    THEN CHOOSE k \in DOMAIN merged : merged[k].key = key ELSE 0

(***************************************************************************)
(* Validator                                                               *)
(***************************************************************************)
\* the float in tenths as str() prints it
ConfidenceStr(tenths) ==
    (IF tenths < 0 THEN "-" ELSE "")
        \o NatStr((IF tenths < 0 THEN -tenths ELSE tenths) \div 10) \o "."
        \o NatStr((IF tenths < 0 THEN -tenths ELSE tenths) % 10)

\* 0.3 in tenths
LowConfidenceTenths == 3

\* item.quantity <= 0 raises TypeError unless the quantity is an int
CompareRaises(quantity) == quantity.t # "int"

\* the five checks as one if/elif chain: only the first failing rule reports
ItemIssues_first_only(item) ==
    IF item.manufacturer = "" \/ item.manufacturer = "Unknown"
    THEN <<"Missing manufacturer for item: " \o item.id>>
    ELSE IF item.model = "" \/ item.model = "Unknown"
    THEN <<"Missing model for item: " \o item.id>>
    ELSE IF item.quantity.n <= 0
    THEN <<"Invalid quantity for item: " \o item.id>>
    ELSE IF item.category \notin CategoryNames /\ item.category # "other"
    THEN <<"Invalid category '" \o item.category \o "' for item: " \o item.id>>
    ELSE IF item.confidence_score < LowConfidenceTenths
    THEN <<"Low confidence score (" \o ConfidenceStr(item.confidence_score)
           \o ") for item: " \o item.id>>
    ELSE <<>>

\* the issues the five checks append for one item
ItemIssues(item) ==
    (IF item.manufacturer = "" \/ item.manufacturer = "Unknown"
     THEN <<"Missing manufacturer for item: " \o item.id>> ELSE <<>>)
    \o (IF item.model = "" \/ item.model = "Unknown"
        THEN <<"Missing model for item: " \o item.id>> ELSE <<>>)
    \o (IF item.quantity.n <= 0
        THEN <<"Invalid quantity for item: " \o item.id>> ELSE <<>>)
    \o (IF item.category \notin CategoryNames /\ item.category # "other"
        THEN <<"Invalid category '" \o item.category \o "' for item: " \o item.id>>
        ELSE <<>>)
    \o (IF item.confidence_score < LowConfidenceTenths
        THEN <<"Low confidence score (" \o ConfidenceStr(item.confidence_score)
               \o ") for item: " \o item.id>>
        ELSE <<>>)

RECURSIVE VenueIssues(_, _)
\* the inner loop of validate_standardized_data over the items from position k
VenueIssues(items, k) ==
    IF k > Len(items) THEN <<>> ELSE ItemIssues(items[k]) \o VenueIssues(items, k + 1)

(***************************************************************************)
(* Inputs                                                                  *)
(***************************************************************************)
\* the most raw records one call is given, over all venues
MaxItems == 3

\* extracted_data.keys(), in the dict's order
VenueNames == <<"Hall", "Arena">>

\* an EquipmentItem as _ai_extract_from_table builds it, its venue still open
Raw(manufacturer, model, quantity, equipment_type, category, specifications, source_document, confidence_score) ==
    [manufacturer |-> manufacturer, model |-> model, quantity |-> quantity,
     equipment_type |-> equipment_type, category |-> category, venue |-> "",
     specifications |-> specifications, source_document |-> source_document,
     confidence_score |-> confidence_score]

MicA ==
    Raw(PyStr("Shure"), PyStr("SM-58"), PyInt(2), PyStr("Dynamic Microphone"),
        PyStr("sound"), <<<<"Weight", PyStr("10 lbs")>>>>, "a.pdf", 5)
MicB ==
    Raw(PyStr("SHURE"), PyStr("sm-58"), PyInt(3), PyStr("Mic"),
        PyStr("Sound"), <<<<"mass", PyStr("5kg")>>, <<"Wattage", PyStr("1.5kW")>>>>,
        "b.pdf", 9)
MicC ==
    Raw(PyStr("Shure Inc"), PyStr("SM 58"), PyInt(1), PyStr("microphone"),
        PyStr("audio"), <<>>, "a.pdf", 2)
MicNoQuantity ==
    Raw(PyStr("shure"), PyStr("Model SM-58"), PyNone, PyStr("Microphone"),
        PyStr("sound"), <<>>, "b.pdf", 5)
MicTextQuantity ==
    Raw(PyStr("Shure"), PyStr("SM-58"), PyStr("12"), PyStr("Microphone"),
        PyStr("sound"), <<>>, "b.pdf", 5)
MixerNegative ==
    Raw(PyStr("Yamaha Corp"), PyStr("QL5"), PyInt(-1), PyStr("Digital Mixing Console"),
        PyStr("sound"), <<>>, "a.pdf", 5)
MixerUnknown ==
    Raw(PyStr(""), PyStr("QL5"), PyInt(0), PyStr("Mixer"), PyStr("sound"), <<>>,
        "a.pdf", 2)
MixerBadType ==
    Raw(PyStr("Yamaha"), PyStr("QL5"), PyInt(1), PyInt(7), PyStr("sound"), <<>>,
        "b.pdf", 5)
WashNoCategory ==
    Raw(PyStr("Martin"), PyStr("MAC Aura"), PyInt(4), PyStr("LED Moving Head Wash"),
        PyStr(""), <<>>, "a.pdf", 9)
TrussOddCategory ==
    Raw(PyStr("Prolyte"), PyStr("H30V"), PyInt(6), PyStr("Truss"), PyStr("rigging"),
        <<>>, "b.pdf", 5)

\* the raw records the inputs are built from
RawItemSeq ==
    <<MicA, MicB, MicC, MicNoQuantity, MicTextQuantity, MixerNegative, MixerUnknown,
      MixerBadType, WashNoCategory, TrussOddCategory>>

RawItems == SeqToSet(RawItemSeq)

\* records whose confidence_score lies outside [0, 1]: 1.5, 1.2 and -0.2
MicTooSure ==
    Raw(PyStr("shure"), PyStr("SM-58"), PyInt(1), PyStr("Microphone"), PyStr("sound"),
        <<>>, "b.pdf", 15)
ProjectorTooSure ==
    Raw(PyStr("Epson"), PyStr("EB-L1500"), PyInt(1), PyStr("Projector"), PyStr("video"),
        <<>>, "a.pdf", 12)
ProjectorUnsure ==
    Raw(PyStr("Barco"), PyStr("UDX"), PyInt(2), PyStr("Projector"), PyStr("video"),
        <<>>, "b.pdf", -2)

\* the records the inputs with confidence scores out of range are built from
ConfidenceItems == {MicA, MicTooSure, ProjectorTooSure, ProjectorUnsure}

\* records as the extraction finds them in a document: a null manufacturer,
\* a null model, and a second entry for the microphone of MicA in a.pdf
MixerNoManufacturer ==
    Raw(PyNone, PyStr("QL5"), PyInt(1), PyStr("Mixer"), PyStr("sound"), <<>>, "a.pdf", 5)
MixerNoModel ==
    Raw(PyStr("Yamaha"), PyNone, PyInt(1), PyStr("Mixer"), PyStr("sound"), <<>>, "b.pdf", 5)
MicAgain ==
    Raw(PyStr("shure"), PyStr("sm-58"), PyInt(4), PyStr("Microphone"), PyStr("Sound"),
        <<<<"Weight", PyStr("300 g")>>>>, "a.pdf", 9)

\* two different mixers whose manufacturer and model hold an underscore
MixerAllenHeath ==
    Raw(PyStr("Allen_Heath"), PyStr("QU-16"), PyInt(1), PyStr("Mixer"), PyStr("sound"),
        <<>>, "a.pdf", 5)
MixerAllen ==
    Raw(PyStr("Allen"), PyStr("Heath_QU-16"), PyInt(2), PyStr("Mixer"), PyStr("sound"),
        <<>>, "a.pdf", 9)

\* the records the extraction of a document may find
ExtractItems ==
    {MicA, MicAgain, MicTooSure, MixerUnknown, MixerNoManufacturer, MixerNoModel,
     MixerAllenHeath, MixerAllen}

\* the most records found for one venue
MaxFound == 2

\* the documents of a venue, in the order they are processed
Documents == <<"a.pdf", "b.pdf">>

\* the records the inputs of an exported run are built from
ExportItems == {MicA, MicB, MixerNegative, TrussOddCategory}

\* the records whose standardization is evaluated once and looked up
TableItemSeq ==
    RawItemSeq \o <<MicTooSure, ProjectorTooSure, ProjectorUnsure,
                     MixerNoManufacturer, MixerNoModel, MicAgain,
                     MixerAllenHeath, MixerAllen>>

\* field values that take the normalizers through their branches: a fuzzy
\* score of exactly 80 and one of 78, a corporate suffix, a repeated model
\* prefix, types that hold keywords of several categories, units to convert
FieldManufacturers == {"sonyab", "panasonxy", "Yamaha Corp", "L.L.C"}
FieldModels == {"Model Model X", "X Series", "! !", "Model !"}
FieldTypes == {"Monitor", "Console", "LED Moving Head Wash", "Lamp", "Truss"}
FieldCategories == {"", "video", "rigging", "vidoe"}
FieldSpecifications ==
    {<<<<"Power", PyStr("1.5kW")>>, <<"Weight", PyStr("10 lbs")>>>>,
     <<<<"wattage", PyStr("2200W")>>>>,
     <<<<"power", PyStr("0.75 kW")>>, <<"mass", PyStr("3 kg")>>>>}

\* one record per field value, the other fields plain
FieldItems ==
    {Raw(PyStr(manufacturer), PyStr("SM-58"), PyInt(1), PyStr("Microphone"), PyStr("sound"),
         <<>>, "a.pdf", 5) : manufacturer \in FieldManufacturers}
    \cup {Raw(PyStr("Shure"), PyStr(model), PyInt(1), PyStr("Microphone"), PyStr("sound"),
              <<>>, "a.pdf", 5) : model \in FieldModels}
    \cup {Raw(PyStr("Shure"), PyStr("SM-58"), PyInt(1), PyStr(tc[1]), PyStr(tc[2]),
              <<>>, "a.pdf", 5) : tc \in FieldTypes \X FieldCategories}
    \cup {Raw(PyStr("Shure"), PyStr("SM-58"), PyInt(1), PyStr("Microphone"), PyStr("sound"),
              specifications, "a.pdf", 5) : specifications \in FieldSpecifications}

\* the lists of at most n elements of S
SeqsUpTo(S, n) == UNION {[1..k -> S] : k \in 0..n}

\* the key _deduplicate_equipment groups one document's records by
DedupKey(item) ==
    <<lower(item.manufacturer.s), lower(item.model.s), lower(item.category.s),
      item.source_document>>

\* one document's records come deduplicated: no two records of a venue share
\* the document and the grouping key
Deduplicated(items) ==
    \A a, b \in DOMAIN items : a # b => DedupKey(items[a]) # DedupKey(items[b])

InVenue(items, venue) == [k \in DOMAIN items |-> [items[k] EXCEPT !.venue = venue]]

\* the lists one venue may be given: at most n records of S, deduplicated
VenueLists(S, n) == {l \in SeqsUpTo(S, n) : Deduplicated(l)}

\* the inputs a call may be given: per venue a list of records of S, at most
\* MaxItems records in all
Inputs(S) ==
    UNION {{(VenueNames[1] :> InVenue(first, VenueNames[1]))
                @@ (VenueNames[2] :> InVenue(second, VenueNames[2])) :
               second \in VenueLists(S, MaxItems - Len(first))} :
           first \in VenueLists(S, MaxItems)}

\* the inputs that hold one record of S, in either venue
SingleInputs(S) ==
    {(VenueNames[1] :> InVenue(<<item>>, VenueNames[1])) @@ (VenueNames[2] :> <<>>) :
        item \in S}
    \cup {(VenueNames[1] :> <<>>) @@ (VenueNames[2] :> InVenue(<<item>>, VenueNames[2])) :
              item \in S}

\* the orders list(self.standardized_categories) can return
RECURSIVE SetToSeq(_)
SetToSeq(S) ==
    IF S = {} THEN <<>>
    ELSE LET x == CHOOSE y \in S : TRUE IN <<x>> \o SetToSeq(S \ {x})

CategoryOrders == SetToSeq(ListsOfSet(CategoryNames))

(***************************************************************************)
(* DataExtractor: _deduplicate_equipment and the loop of                   *)
(* extract_equipment_data around it                                        *)
(***************************************************************************)
\* type(x).__name__
TypeName(x) ==
    CASE x.t = "str" -> "str"
      [] x.t = "int" -> "int"
      [] OTHER -> "NoneType"

\* the grouping key cannot be built: .lower() of a field that is no str
GroupKeyRaises(item) ==
    item.manufacturer.t # "str" \/ item.model.t # "str" \/ item.category.t # "str"

\* the message of the AttributeError, for the first field that is no str
GroupKeyError(item) ==
    "'" \o TypeName(IF item.manufacturer.t # "str" THEN item.manufacturer
                     ELSE IF item.model.t # "str" THEN item.model ELSE item.category)
        \o "' object has no attribute 'lower'"

\* f"{item.manufacturer.lower()}_{item.model.lower()}_{item.category.lower()}"
group_key(item) ==
    lower(item.manufacturer.s) \o "_" \o lower(item.model.s) \o "_" \o lower(item.category.s)

\* the message of the TypeError of a += b
AddError(a, b) ==
    IF a.t = "str" THEN "can only concatenate str (not \"" \o TypeName(b) \o "\") to str"
    ELSE "unsupported operand type(s) for +=: '" \o TypeName(a) \o "' and '"
             \o TypeName(b) \o "'"

\* the body of the branch "key in grouped_items"
DeduplicateInto(existing_item, item) ==
    [existing_item EXCEPT
        !.quantity = PyAdd(existing_item.quantity, item.quantity),
        !.specifications = DictUpdate(existing_item.specifications, item.specifications, 1),
        !.confidence_score = PyMax(existing_item.confidence_score, item.confidence_score)]

RECURSIVE DeduplicateFrom(_, _, _)
\* the loop of _deduplicate_equipment from position i on; error is the message
\* of the exception that leaves it, "" when it returns
DeduplicateFrom(equipment_items, i, grouped_items) ==
    IF i > Len(equipment_items)
    THEN [error |-> "",
          items |-> [k \in DOMAIN grouped_items |-> grouped_items[k].item]]
    ELSE IF GroupKeyRaises(equipment_items[i])
    THEN [error |-> GroupKeyError(equipment_items[i]), items |-> <<>>]
    ELSE IF KeyIndex(grouped_items, group_key(equipment_items[i])) = 0
    THEN DeduplicateFrom(equipment_items, i + 1,
             Append(grouped_items, [key |-> group_key(equipment_items[i]),
                                    item |-> equipment_items[i]]))
    ELSE IF AddRaises(grouped_items[KeyIndex(grouped_items, group_key(equipment_items[i]))]
                          .item.quantity,
                      equipment_items[i].quantity)
    THEN [error |-> AddError(grouped_items[KeyIndex(grouped_items,
                                         group_key(equipment_items[i]))].item.quantity,
                             equipment_items[i].quantity),
          items |-> <<>>]
    ELSE DeduplicateFrom(equipment_items, i + 1,
             [grouped_items EXCEPT
                 ![KeyIndex(grouped_items, group_key(equipment_items[i]))].item =
                     DeduplicateInto(@, equipment_items[i])])

_deduplicate_equipment(equipment_items) == DeduplicateFrom(equipment_items, 1, <<>>)

\* the records of found that the document holds
FoundIn(found, document) ==
    SelectSeq(found, LAMBDA item : item.source_document = document)

RECURSIVE ExtractDocuments(_, _)
\* the loop "for pdf_content in pdf_contents" from document d on: what is
\* appended to venue_equipment, and what the except branch logs
ExtractDocuments(found, d) ==
    IF d > Len(Documents) THEN [items |-> <<>>, errors |-> <<>>]
    ELSE [items |-> _deduplicate_equipment(FoundIn(found, Documents[d])).items
                        \o ExtractDocuments(found, d + 1).items,
          errors |-> (IF _deduplicate_equipment(FoundIn(found, Documents[d])).error # ""
                      THEN <<"Error extracting data from " \o Documents[d] \o ": "
                             \o _deduplicate_equipment(FoundIn(found, Documents[d])).error>>
                      ELSE <<>>)
                     \o ExtractDocuments(found, d + 1).errors]

(***************************************************************************)
(* DataExporter: export_equipment_database                                 *)
(***************************************************************************)
\* str.replace(' ', '_') on one character
SpaceToUnderscore(c) == IF c = " " THEN "_" ELSE c

\* f"{item.manufacturer}_{item.model}".lower().replace(' ', '_')
equipment_key(item) ==
    MapStr(SpaceToUnderscore, lower(item.manufacturer \o "_" \o item.model), 1)

RECURSIVE ItemPositions(_, _)
\* the records in the order of the two loops, each as <<venue_name, position>>
ItemPositions(data, v) ==
    IF v > Len(VenueNames) THEN <<>>
    ELSE [k \in DOMAIN data[VenueNames[v]] |-> <<VenueNames[v], k>>]
         \o ItemPositions(data, v + 1)

\* the entry made for the first record with an equipment key; owner names
\* the record whose specifications dict the entry holds: the entry stores
\* item.specifications itself, not a copy
NewEquipment(key, position, item) ==
    [key |-> key,
     owner |-> position,
     venues_found_in |-> <<position[1]>>,
     total_quantity_across_venues |-> item.quantity,
     confidence_score |-> item.confidence_score]

\* the branch "Update existing entry" on the entry, but for the specifications
UpdatedEquipment(existing, venue_name, item) ==
    [existing EXCEPT
        !.venues_found_in =
            IF InSeq(venue_name, existing.venues_found_in) THEN @ ELSE Append(@, venue_name),
        !.total_quantity_across_venues = PyAdd(@, item.quantity),
        !.confidence_score = PyMax(@, item.confidence_score)]

RECURSIVE ExportFrom(_, _, _, _)
\* the two loops from the i-th record on. existing["specifications"].update(...)
\* writes into the dict of the owner record, so data changes; error is the
\* message of the exception that leaves the loops, "" when they end
ExportFrom(data, positions, i, unique_equipment) ==
    IF i > Len(positions) THEN [data |-> data, error |-> ""]
    ELSE LET venue_name == positions[i][1]
             item == data[venue_name][positions[i][2]]
             u == KeyIndex(unique_equipment, equipment_key(item))
         IN  IF u = 0
             THEN ExportFrom(data, positions, i + 1,
                             Append(unique_equipment,
                                    NewEquipment(equipment_key(item), positions[i], item)))
             ELSE IF AddRaises(unique_equipment[u].total_quantity_across_venues, item.quantity)
             THEN [data |-> data,
                   error |-> AddError(unique_equipment[u].total_quantity_across_venues,
                                      item.quantity)]
             ELSE ExportFrom(
                      [data EXCEPT
                          ![unique_equipment[u].owner[1]][unique_equipment[u].owner[2]]
                              .specifications = DictUpdate(@, item.specifications, 1)],
                      positions, i + 1,
                      [unique_equipment EXCEPT ![u] = UpdatedEquipment(@, venue_name, item)])

\* what export_equipment_database leaves of the data it was given
export_equipment_database(data) == ExportFrom(data, ItemPositions(data, 1), 1, <<>>)

(***************************************************************************)
(* VenueWebScraper: _generate_pdf_filename                                 *)
(***************************************************************************)
\* [^a-zA-Z0-9\s]
NotAlnumNotSpace(c) == ~(IsAlpha(c) \/ IsDigit(c) \/ IsSpace(c))

\* re.sub(r'\s+', '_', re.sub(r'[^a-zA-Z0-9\s]', '', s).strip())
CleanName(s) == SubRuns(IsSpace, "_", strip(SubChars(NotAlnumNotSpace, "", s, 1)), 1)

\* pdf_info.get('title', 'spec'): PyNone stands for an entry without the key
TitleOf(pdf_info) == IF pdf_info.title = PyNone THEN "spec" ELSE pdf_info.title.s

\* f"{clean_venue}_{clean_title}.pdf"
BaseFilename(pdf_info) ==
    CleanName(pdf_info.venue_name) \o "_" \o CleanName(TitleOf(pdf_info)) \o ".pdf"

\* os.path.splitext(base_filename)[0]
SplitName(base_filename) == SubSeq(base_filename, 1, Len(base_filename) - Len(".pdf"))

RECURSIVE UniqueFilename(_, _, _, _)
\* the loop "while os.path.exists(...)": cache holds the files that exist now
UniqueFilename(cache, base_filename, filename, counter) ==
    IF filename \notin DOMAIN cache THEN filename
    ELSE UniqueFilename(cache, base_filename,
                        SplitName(base_filename) \o "_" \o NatStr(counter) \o ".pdf",
                        counter + 1)

_generate_pdf_filename(cache, pdf_info) ==
    UniqueFilename(cache, BaseFilename(pdf_info), BaseFilename(pdf_info), 1)

\* os.path.join(PDF_CACHE_DIR, filename)
FilePath(filename) == "pdf_cache/" \o filename

\* the filename of a filepath
FileOf(filepath) == SubSeq(filepath, Len("pdf_cache/") + 1, Len(filepath))

(***************************************************************************)
(* The inputs of download_pdfs                                             *)
(***************************************************************************)
\* the most pdf_info entries of a run
MaxPdfs == 3

\* a pdf_info entry under its venue; local_path, downloaded and error are
\* the keys download_pdfs sets
PdfInfo(venue_name, pdf_title, url) ==
    [venue_name |-> venue_name, title |-> pdf_title, url |-> url,
     local_path |-> "", downloaded |-> FALSE, error |-> ""]

\* titles: two that are cleaned to the same name, and an entry without title
PdfTitles == {PyStr("Tech Spec"), PyStr("Tech  Spec!"), PyNone}

\* the position of the venue in VenueNames
VenueIndex(venue_name) == CHOOSE v \in DOMAIN VenueNames : VenueNames[v] = venue_name

\* the entries of venue_pdfs in the order of the two loops: venue by venue,
\* every entry with a url of its own
PdfInputs ==
    {[t \in DOMAIN choice |->
         PdfInfo(choice[t][1], choice[t][2], "https://venue.example/" \o NatStr(t) \o ".pdf")] :
     choice \in {c \in UNION {[1..n -> SeqToSet(VenueNames) \X PdfTitles] : n \in 2..MaxPdfs} :
                    \A a, b \in DOMAIN c :
                        a < b => VenueIndex(c[a][1]) <= VenueIndex(c[b][1])}}

\* the values MAX_CONCURRENT_REQUESTS may have in the environment
ConcurrencyLimits == {1, 2, MAX_CONCURRENT_REQUESTS}

\* PDF_CACHE_DIR before the run: empty, or holding a file of an earlier run
InitialCaches == {<<>>, ("Hall_Tech_Spec.pdf" :> "earlier run")}

\* the HTTP status of a response
Statuses == {200, 404}

(***************************************************************************)
(* The results of _standardize_single_item for the records of TableItemSeq,*)
(* per venue and per order of the categories, evaluated once               *)
(***************************************************************************)
RECURSIVE StandardizedPerOrder(_, _, _)
StandardizedPerOrder(k, n, o) ==
    IF o > Len(CategoryOrders) THEN <<>>
    ELSE <<_standardize_single_item([TableItemSeq[k] EXCEPT !.venue = VenueNames[n]],
                                    CategoryOrders[o])>>
         \o StandardizedPerOrder(k, n, o + 1)

RECURSIVE StandardizedPerVenue(_, _)
StandardizedPerVenue(k, n) ==
    IF n > Len(VenueNames) THEN <<>>
    ELSE <<StandardizedPerOrder(k, n, 1)>> \o StandardizedPerVenue(k, n + 1)

RECURSIVE StandardizedFrom(_)
StandardizedFrom(k) ==
    IF k > Len(TableItemSeq) THEN <<>>
    ELSE <<IF Raises_standardize_single_item(TableItemSeq[k]) THEN <<>>
           ELSE StandardizedPerVenue(k, 1)>>
         \o StandardizedFrom(k + 1)

StandardizedTable == StandardizedFrom(1)

\* _standardize_single_item(item): looked up for a record built from
\* TableItemSeq, computed for any other
Standardized(item, order) ==
    IF \E k \in DOMAIN TableItemSeq : TableItemSeq[k] = [item EXCEPT !.venue = ""]
    THEN StandardizedTable
             [CHOOSE k \in DOMAIN TableItemSeq : TableItemSeq[k] = [item EXCEPT !.venue = ""]]
             [CHOOSE n \in DOMAIN VenueNames : VenueNames[n] = item.venue]
             [CHOOSE o \in DOMAIN CategoryOrders : CategoryOrders[o] = order]
    ELSE _standardize_single_item(item, order)

(***************************************************************************)
(* State                                                                   *)
(***************************************************************************)
EmptyDict == [x \in {} |-> <<>>]

InitWith(S) ==
    /\ extracted_data \in Inputs(S)
    /\ category_list \in ListsOfSet(CategoryNames)
    /\ pc = "standardize"
    /\ venue_pos = 1
    /\ item_pos = 1
    /\ standardized_items = <<>>
    /\ merged_items = <<>>
    /\ standardized_data = EmptyDict
    /\ validation_report = EmptyDict
    /\ error_log = <<>>
    /\ raised = ""
    /\ DownloadIdle

Init == InitWith(RawItems)

\* the calls whose records may carry a confidence_score outside [0, 1]
InitConfidence == InitWith(ConfidenceItems)

\* the calls given one record, which takes one field through a normalizer
InitFields ==
    /\ extracted_data \in SingleInputs(FieldItems)
    /\ category_list \in ListsOfSet(CategoryNames)
    /\ pc = "standardize"
    /\ venue_pos = 1
    /\ item_pos = 1
    /\ standardized_items = <<>>
    /\ merged_items = <<>>
    /\ standardized_data = EmptyDict
    /\ validation_report = EmptyDict
    /\ error_log = <<>>
    /\ raised = ""
    /\ DownloadIdle

\* the pipeline from the extraction on: extract_equipment_data starts with
\* extracted_data = {}
InitExtract ==
    /\ extracted_data = EmptyDict
    /\ category_list \in ListsOfSet(CategoryNames)
    /\ pc = "extract"
    /\ venue_pos = 1
    /\ item_pos = 1
    /\ standardized_items = <<>>
    /\ merged_items = <<>>
    /\ standardized_data = EmptyDict
    /\ validation_report = EmptyDict
    /\ error_log = <<>>
    /\ raised = ""
    /\ DownloadIdle

(***************************************************************************)
(* extract_equipment_data                                                  *)
(***************************************************************************)
\* one pass of the loop "for venue_name, pdf_contents in processed_content.items()";
\* found is what the extraction reads in the venue's documents. After the
\* last venue the result goes to standardize_equipment_data
ExtractVenue ==
    /\ pc = "extract"
    /\ venue_pos <= Len(VenueNames)
    /\ \E found \in SeqsUpTo(ExtractItems, MaxFound) :
           /\ extracted_data' =
                  extracted_data @@
                      (VenueNames[venue_pos] :>
                          ExtractDocuments(InVenue(found, VenueNames[venue_pos]), 1).items)
           /\ error_log' =
                  error_log
                      \o ExtractDocuments(InVenue(found, VenueNames[venue_pos]), 1).errors
    /\ IF venue_pos < Len(VenueNames)
       THEN venue_pos' = venue_pos + 1 /\ pc' = pc
       ELSE venue_pos' = 1 /\ pc' = "standardize"
    /\ UNCHANGED <<category_list, item_pos, standardized_items, merged_items,
                   standardized_data, validation_report, raised>>
    /\ UNCHANGED download_vars

(***************************************************************************)
(* standardize_equipment_data                                              *)
(***************************************************************************)
\* one pass of the loop "for item in equipment_items", try and except included
StandardizeItem ==
    /\ pc = "standardize"
    /\ venue_pos <= Len(VenueNames)
    /\ item_pos <= Len(extracted_data[VenueNames[venue_pos]])
    /\ LET item == extracted_data[VenueNames[venue_pos]][item_pos] IN
       IF Raises_standardize_single_item(item)
       THEN /\ error_log' = Append(error_log, ErrorMessage(item))
            /\ UNCHANGED standardized_items
       ELSE /\ standardized_items' =
                   Append(standardized_items, Standardized(item, category_list))
            /\ UNCHANGED error_log
    /\ item_pos' = item_pos + 1
    /\ UNCHANGED <<extracted_data, category_list, pc, venue_pos, merged_items, standardized_data,
                   validation_report, raised>>
    /\ UNCHANGED download_vars

\* the call _merge_duplicate_items(standardized_items) up to its loop
BeginMerge ==
    /\ pc = "standardize"
    /\ venue_pos <= Len(VenueNames)
    /\ item_pos > Len(extracted_data[VenueNames[venue_pos]])
    /\ pc' = "merge"
    /\ item_pos' = 1
    /\ merged_items' = <<>>
    /\ UNCHANGED <<extracted_data, category_list, venue_pos, standardized_items, standardized_data,
                   validation_report, error_log, raised>>
    /\ UNCHANGED download_vars

\* one pass of the loop "for item in items" of _merge_duplicate_items
MergeItem ==
    /\ pc = "merge"
    /\ item_pos <= Len(standardized_items)
    /\ LET item == standardized_items[item_pos]
           k == KeyIndex(merged_items, merge_key(item))
       IN  IF k = 0
           THEN /\ merged_items' = Append(merged_items, [key |-> merge_key(item), item |-> item])
                /\ item_pos' = item_pos + 1
                /\ UNCHANGED <<pc, raised>>
           ELSE IF AddRaises(merged_items[k].item.quantity, item.quantity)
           THEN /\ pc' = "raised"
                /\ raised' = "TypeError"
                /\ UNCHANGED <<merged_items, item_pos>>
           ELSE /\ \E docs \in ListsOfSet(SeqToSet(merged_items[k].item.source_documents)
                                            \cup SeqToSet(item.source_documents)) :
                       merged_items' =
                           [merged_items EXCEPT ![k].item = MergeInto(@, item, docs)]
                /\ item_pos' = item_pos + 1
                /\ UNCHANGED <<pc, raised>>
    /\ UNCHANGED <<extracted_data, category_list, venue_pos, standardized_items, standardized_data,
                   validation_report, error_log>>
    /\ UNCHANGED download_vars

\* the return of _merge_duplicate_items, standardized_data[venue_name] = merged_items,
\* and the next venue's standardized_items = []; after the last venue the return
\* of standardize_equipment_data, whose result validate_standardized_data is given
StoreVenue ==
    /\ pc = "merge"
    /\ item_pos > Len(standardized_items)
    /\ standardized_data' =
           standardized_data @@
               (VenueNames[venue_pos] :> [k \in DOMAIN merged_items |-> merged_items[k].item])
    /\ standardized_items' = <<>>
    /\ item_pos' = 1
    /\ IF venue_pos < Len(VenueNames)
       THEN venue_pos' = venue_pos + 1 /\ pc' = "standardize"
       ELSE venue_pos' = 1 /\ pc' = "validate"
    /\ UNCHANGED <<extracted_data, category_list, merged_items, validation_report,
                   error_log, raised>>
    /\ UNCHANGED download_vars

(***************************************************************************)
(* validate_standardized_data                                              *)
(***************************************************************************)
\* a validator that repairs what it reports: a quantity that is not positive
\* is set to 1 in the record
ValidateVenue_repairing ==
    /\ pc = "validate"
    /\ venue_pos <= Len(VenueNames)
    /\ LET items == standardized_data[VenueNames[venue_pos]] IN
       IF \E k \in DOMAIN items : CompareRaises(items[k].quantity)
       THEN /\ pc' = "raised"
            /\ raised' = "TypeError"
            /\ UNCHANGED <<venue_pos, validation_report, standardized_data>>
       ELSE /\ validation_report' =
                   validation_report @@ (VenueNames[venue_pos] :> VenueIssues(items, 1))
            /\ standardized_data' =
                   [standardized_data EXCEPT ![VenueNames[venue_pos]] =
                       [k \in DOMAIN items |->
                           IF items[k].quantity.n <= 0
                           THEN [items[k] EXCEPT !.quantity = PyInt(1)] ELSE items[k]]]
            /\ venue_pos' = venue_pos + 1
            /\ UNCHANGED <<pc, raised>>
    /\ UNCHANGED <<extracted_data, category_list, item_pos, standardized_items, merged_items,
                   error_log>>
    /\ UNCHANGED download_vars

\* one pass of the loop "for venue_name, items in standardized_data.items()"
ValidateVenue ==
    /\ pc = "validate"
    /\ venue_pos <= Len(VenueNames)
    /\ LET items == standardized_data[VenueNames[venue_pos]] IN
       IF \E k \in DOMAIN items : CompareRaises(items[k].quantity)
       THEN /\ pc' = "raised"
            /\ raised' = "TypeError"
            /\ UNCHANGED <<venue_pos, validation_report>>
       ELSE /\ validation_report' =
                   validation_report @@ (VenueNames[venue_pos] :> VenueIssues(items, 1))
            /\ venue_pos' = venue_pos + 1
            /\ UNCHANGED <<pc, raised>>
    /\ UNCHANGED <<extracted_data, category_list, item_pos, standardized_items, merged_items,
                   standardized_data, error_log>>
    /\ UNCHANGED download_vars

\* return validation_report
Return ==
    /\ pc = "validate"
    /\ venue_pos > Len(VenueNames)
    /\ pc' = "done"
    /\ UNCHANGED <<extracted_data, category_list, venue_pos, item_pos, standardized_items, merged_items,
                   standardized_data, validation_report, error_log, raised>>
    /\ UNCHANGED download_vars

Next ==
    \/ StandardizeItem
    \/ BeginMerge
    \/ MergeItem
    \/ StoreVenue
    \/ ValidateVenue
    \/ Return

Spec == Init /\ [][Next]_vars

SpecConfidence == InitConfidence /\ [][Next]_vars

SpecFields == InitFields /\ [][Next]_vars

\* the call export_equipment_database(standardized_data) of export_all_formats
\* after the validation has returned; an exception goes to the except branch
\* of export_all_formats, which logs it
ExportEquipmentDatabase ==
    /\ pc = "done"
    /\ pc' = "exported"
    /\ standardized_data' = export_equipment_database(standardized_data).data
    /\ error_log' =
           IF export_equipment_database(standardized_data).error = "" THEN error_log
           ELSE Append(error_log, "Error during export: "
                                      \o export_equipment_database(standardized_data).error)
    /\ UNCHANGED <<extracted_data, category_list, venue_pos, item_pos, standardized_items,
                   merged_items, validation_report, raised>>
    /\ UNCHANGED download_vars

InitExport == InitWith(ExportItems)

NextExport ==
    \/ StandardizeItem
    \/ BeginMerge
    \/ MergeItem
    \/ StoreVenue
    \/ ValidateVenue
    \/ Return
    \/ ExportEquipmentDatabase

SpecExport == InitExport /\ [][NextExport]_vars

(***************************************************************************)
(* download_pdfs                                                           *)
(***************************************************************************)
\* the run at the call of download_pdfs: a task per entry, none started
InitDownload ==
    /\ venue_pdfs \in PdfInputs
    /\ max_concurrent \in ConcurrencyLimits
    /\ permits = max_concurrent
    /\ task_pc = [t \in DOMAIN venue_pdfs |-> "created"]
    /\ task_filepath = [t \in DOMAIN venue_pdfs |-> ""]
    /\ results = [t \in DOMAIN venue_pdfs |-> ""]
    /\ pdf_cache \in InitialCaches
    /\ pc = "download"
    /\ extracted_data = EmptyDict
    /\ category_list = CategoryOrders[1]
    /\ venue_pos = 1
    /\ item_pos = 1
    /\ standardized_items = <<>>
    /\ merged_items = <<>>
    /\ standardized_data = EmptyDict
    /\ validation_report = EmptyDict
    /\ error_log = <<>>
    /\ raised = ""

\* what the download leaves alone
pipeline_vars ==
    <<extracted_data, category_list, venue_pos, item_pos, standardized_items, merged_items,
      standardized_data, validation_report, raised>>

\* bounded_download(task) up to the first suspension of _download_pdf: the
\* semaphore is taken (tasks take it in the order gather started them), the
\* filename is generated against the files that exist now, and the request
\* is sent; a file that exists already is returned at once
StartDownloadTask(t) ==
    /\ pc = "download"
    /\ task_pc[t] = "created"
    /\ \A j \in 1..(t - 1) : task_pc[j] # "created"
    /\ permits > 0
    /\ task_filepath' =
           [task_filepath EXCEPT ![t] = FilePath(_generate_pdf_filename(pdf_cache, venue_pdfs[t]))]
    /\ IF _generate_pdf_filename(pdf_cache, venue_pdfs[t]) \in DOMAIN pdf_cache
       THEN /\ results' = [results EXCEPT ![t] = task_filepath'[t]]
            /\ task_pc' = [task_pc EXCEPT ![t] = "done"]
            /\ UNCHANGED permits
       ELSE /\ task_pc' = [task_pc EXCEPT ![t] = "requesting"]
            /\ permits' = permits - 1
            /\ UNCHANGED results
    /\ UNCHANGED <<pc, venue_pdfs, max_concurrent, pdf_cache, error_log>>
    /\ UNCHANGED pipeline_vars

\* the response of session.get arrives: with status 200 the task goes on to
\* response.read(), with another one it raises, logs and returns None
RespondTo(t) ==
    /\ pc = "download"
    /\ task_pc[t] = "requesting"
    /\ \E status \in Statuses :
           IF status = 200
           THEN /\ task_pc' = [task_pc EXCEPT ![t] = "reading"]
                /\ UNCHANGED <<permits, error_log>>
           ELSE /\ task_pc' = [task_pc EXCEPT ![t] = "done"]
                /\ permits' = permits + 1
                /\ error_log' =
                       Append(error_log, "Failed to download PDF " \o venue_pdfs[t].url
                                             \o ": HTTP " \o NatStr(status))
    /\ UNCHANGED <<pc, venue_pdfs, max_concurrent, task_filepath, results, pdf_cache>>
    /\ UNCHANGED pipeline_vars

\* response.read() returns: the content is written to the filepath chosen at
\* the start, whatever is there by now, and the filepath is returned
WriteFileOf(t) ==
    /\ pc = "download"
    /\ task_pc[t] = "reading"
    /\ pdf_cache' = (FileOf(task_filepath[t]) :> venue_pdfs[t].url) @@ pdf_cache
    /\ results' = [results EXCEPT ![t] = task_filepath[t]]
    /\ task_pc' = [task_pc EXCEPT ![t] = "done"]
    /\ permits' = permits + 1
    /\ UNCHANGED <<pc, venue_pdfs, max_concurrent, task_filepath, error_log>>
    /\ UNCHANGED pipeline_vars

\* after gather: the loop "Update PDF info with download results"
UpdatePdfInfo ==
    /\ pc = "download"
    /\ \A t \in DOMAIN task_pc : task_pc[t] = "done"
    /\ venue_pdfs' =
           [t \in DOMAIN venue_pdfs |->
               IF results[t] # ""
               THEN [venue_pdfs[t] EXCEPT !.local_path = results[t], !.downloaded = TRUE]
               ELSE [venue_pdfs[t] EXCEPT !.downloaded = FALSE, !.error = "Download failed"]]
    /\ pc' = "downloaded"
    /\ UNCHANGED <<max_concurrent, permits, task_pc, task_filepath, results, pdf_cache,
                   error_log>>
    /\ UNCHANGED pipeline_vars

\* the event loop runs a step of one of the tasks
StartDownload == \E t \in DOMAIN task_pc : StartDownloadTask(t)

Respond == \E t \in DOMAIN task_pc : RespondTo(t)

WriteFile == \E t \in DOMAIN task_pc : WriteFileOf(t)

NextDownload ==
    \/ StartDownload
    \/ Respond
    \/ WriteFile
    \/ UpdatePdfInfo

SpecDownload == InitDownload /\ [][NextDownload]_vars

NextExtract ==
    \/ ExtractVenue
    \/ StandardizeItem
    \/ BeginMerge
    \/ MergeItem
    \/ StoreVenue
    \/ ValidateVenue
    \/ Return

SpecExtract == InitExtract /\ [][NextExtract]_vars

(***************************************************************************)
(* Properties                                                              *)
(***************************************************************************)
\* the positions of the records of items that carry the id x
WithId(items, x) == {k \in DOMAIN items : items[k].id = x}

\* C1: within every venue's output list no two records have the same id
\* (records that share the id are folded into one output record).
C1_IdsUniqueWithinVenue ==
    \A venue \in DOMAIN standardized_data :
        Cardinality({standardized_data[venue][k].id : k \in DOMAIN standardized_data[venue]})
            = Len(standardized_data[venue])

\* _merge_duplicate_items has run its loop to the end
MergeLoopDone == pc = "merge" /\ item_pos > Len(standardized_items)

RECURSIVE QuantitySum(_, _, _)
\* the sum of the int quantities of the records of items from position k on
\* that carry the id x
QuantitySum(items, x, k) ==
    IF k > Len(items) THEN 0
    ELSE (IF items[k].id = x THEN items[k].quantity.n ELSE 0) + QuantitySum(items, x, k + 1)

\* C2: the records given to _merge_duplicate_items that share an id, in
\* whatever order they come, leave exactly one merged record, and its
\* quantity is the sum of their quantities.
C2_OneRecordWithQuantitySum ==
    MergeLoopDone =>
        \A x \in {standardized_items[k].id : k \in DOMAIN standardized_items} :
            (\A k \in WithId(standardized_items, x) : standardized_items[k].quantity.t = "int")
            => \E m \in DOMAIN merged_items :
                  /\ merged_items[m].item.id = x
                  /\ merged_items[m].item.quantity = PyInt(QuantitySum(standardized_items, x, 1))
                  /\ \A o \in DOMAIN merged_items : merged_items[o].item.id = x => o = m

RECURSIVE MergeKeys(_, _)
\* the merge keys of the records of items from position k on
MergeKeys(items, k) ==
    IF k > Len(items) THEN <<>> ELSE <<merge_key(items[k])>> \o MergeKeys(items, k + 1)

\* the positions below upto at which keys holds key
KeyPositions(keys, key, upto) == {k \in 1..(upto - 1) : keys[k] = key}

\* every record of merged carries the greatest confidence of the records of
\* items at positions below upto that have its merge key, keys being the merge
\* keys of items
MaxOfMerged(merged, items, keys, upto) ==
    \A m \in DOMAIN merged :
        /\ \A k \in KeyPositions(keys, merged[m].key, upto) :
               merged[m].item.confidence_score >= items[k].confidence_score
        /\ \E k \in KeyPositions(keys, merged[m].key, upto) :
               merged[m].item.confidence_score = items[k].confidence_score

\* C3: at every step of _merge_duplicate_items each surviving record's
\* confidence_score is the maximum of the confidence_score of the records
\* merged into it so far; the records merged so far only grow from step to
\* step, so no merge step lowers it.
C3_ConfidenceIsRunningMax ==
    pc = "merge" =>
        MaxOfMerged(merged_items, standardized_items, MergeKeys(standardized_items, 1),
                    item_pos)

\* a record of lower confidence has just been merged into a surviving record
C3_LowerConfidenceMerged ==
    /\ pc = "merge"
    /\ item_pos > 2
    /\ \E m \in DOMAIN merged_items :
           /\ merged_items[m].key = merge_key(standardized_items[item_pos - 1])
           /\ Len(merged_items[m].item.source_documents) >= 2
           /\ merged_items[m].item.confidence_score
                  > standardized_items[item_pos - 1].confidence_score

\* standardize_equipment_data has just returned its result
StandardizeReturned == pc = "validate" /\ venue_pos = 1

\* two raw records whose manufacturer and model differ only in letter case
CaseVariants(a, b) ==
    /\ a.manufacturer.t = "str" /\ b.manufacturer.t = "str"
    /\ a.model.t = "str" /\ b.model.t = "str"
    /\ lower(a.manufacturer.s) = lower(b.manufacturer.s)
    /\ lower(a.model.s) = lower(b.model.s)
    /\ (a.manufacturer.s # b.manufacturer.s \/ a.model.s # b.model.s)

\* the records at positions a and b of the list are the only ones of it
\* whose standardized record carries the id x
OnlyTheseCarryId(list, a, b, x) ==
    \A c \in DOMAIN list :
        c \notin {a, b} =>
            \/ Raises_standardize_single_item(list[c])
            \/ Standardized(list[c], category_list).id # x

\* C4: two raw records of one venue whose manufacturer and model differ only
\* in letter case get the same id, and the output holds exactly one record for
\* them, whose quantity is the sum of both quantities.
C4_CaseVariantsMergeIntoOne ==
    StandardizeReturned =>
        \A venue \in DOMAIN extracted_data :
            \A a, b \in DOMAIN extracted_data[venue] :
                (/\ a < b
                 /\ CaseVariants(extracted_data[venue][a], extracted_data[venue][b])
                 /\ ~Raises_standardize_single_item(extracted_data[venue][a])
                 /\ ~Raises_standardize_single_item(extracted_data[venue][b]))
                => LET first == extracted_data[venue][a]
                       second == extracted_data[venue][b]
                       x == Standardized(first, category_list).id
                   IN  /\ Standardized(second, category_list).id = x
                       /\ (/\ OnlyTheseCarryId(extracted_data[venue], a, b, x)
                           /\ first.quantity.t = "int"
                           /\ second.quantity.t = "int")
                          => /\ Cardinality(WithId(standardized_data[venue], x)) = 1
                             /\ \A m \in WithId(standardized_data[venue], x) :
                                    standardized_data[venue][m].quantity
                                        = PyInt(first.quantity.n + second.quantity.n)

\* the call was given ("Shure", "SM-58", 2) and ("SHURE", "sm-58", 3) for one
\* venue and returned one record of quantity 5 for it
C4_CaseVariantsMerged ==
    /\ StandardizeReturned
    /\ extracted_data[VenueNames[1]] = InVenue(<<MicA, MicB>>, VenueNames[1])
    /\ Len(standardized_data[VenueNames[1]]) = 1
    /\ standardized_data[VenueNames[1]][1].quantity = PyInt(5)
    /\ standardized_data[VenueNames[1]][1].id = "shure_sm_58_hall"

\* the categories a standardized record may carry
AllowedCategories == {"lighting", "sound", "video", "other"}

\* C5: every standardized record's category is one of lighting, sound, video
\* or other, and the validation report holds no 'Invalid category' issue.
C5_CategoryAlwaysAllowed ==
    /\ \A k \in DOMAIN standardized_items :
           standardized_items[k].category \in AllowedCategories
    /\ \A venue \in DOMAIN standardized_data :
           \A k \in DOMAIN standardized_data[venue] :
               standardized_data[venue][k].category \in AllowedCategories
    /\ \A venue \in DOMAIN validation_report :
           \A k \in DOMAIN validation_report[venue] :
               ~StartsWith(validation_report[venue][k], "Invalid category")

\* a record whose raw category "rigging" is no category and whose type infers
\* none has been standardized to "other" and validated
C5_UnknownCategoryValidated ==
    /\ pc = "done"
    /\ \E venue \in DOMAIN standardized_data :
           \E k \in DOMAIN standardized_data[venue] :
               /\ standardized_data[venue][k].category = "other"
               /\ InSeq("Category normalized: rigging -> other",
                        standardized_data[venue][k].standardization_notes)

\* the raw record leaves _standardize_single_item without an exception
Survives(item) == ~Raises_standardize_single_item(item)

\* the loop over the venue's raw records has run to its end
StandardizeLoopDone ==
    /\ pc = "standardize"
    /\ venue_pos <= Len(VenueNames)
    /\ item_pos > Len(extracted_data[VenueNames[venue_pos]])

\* standardized_items is what the loop leaves for the list without its
\* failing records
AsIfFailingAbsent(list) ==
    LET kept == SelectSeq(list, Survives)
    IN  /\ Len(standardized_items) = Len(kept)
        /\ \A k \in DOMAIN kept :
               standardized_items[k] = Standardized(kept[k], category_list)

\* standardize_equipment_data was left by an exception: a venue has no result
StandardizeAborted == pc = "raised" /\ DOMAIN standardized_data # SeqToSet(VenueNames)

\* C6: a raw record whose standardization raises is the only thing dropped:
\* the venue's list goes to the merge as if the failing record were absent,
\* and the call is never aborted, it returns a result for every venue.
C6_FailingRecordOnlyDropped ==
    /\ StandardizeLoopDone => AsIfFailingAbsent(extracted_data[VenueNames[venue_pos]])
    /\ error_log # <<>> => ~StandardizeAborted

\* C7: a quantity that is no number, or negative, never makes a stage raise;
\* the standardizer leaves it as it is and the validator reports an 'Invalid
\* quantity' issue for the record.
C7_InvalidQuantityReported ==
    /\ raised = ""
    /\ pc = "done" =>
           \A venue \in DOMAIN standardized_data :
               \A k \in DOMAIN standardized_data[venue] :
                   (\/ standardized_data[venue][k].quantity.t # "int"
                    \/ standardized_data[venue][k].quantity.n <= 0)
                   => InSeq("Invalid quantity for item: " \o standardized_data[venue][k].id,
                            validation_report[venue])

\* the text names the raw record: it holds its manufacturer and its model
Names(text, item) ==
    Contains(text, Format(item.manufacturer)) /\ Contains(text, Format(item.model))

\* some record's standardization_notes or some venue's issues name the record
LeftTrace(item) ==
    \/ \E venue \in DOMAIN standardized_data :
           \E k \in DOMAIN standardized_data[venue] :
               \E n \in DOMAIN standardized_data[venue][k].standardization_notes :
                   Names(standardized_data[venue][k].standardization_notes[n], item)
    \/ \E venue \in DOMAIN validation_report :
           \E n \in DOMAIN validation_report[venue] :
               Names(validation_report[venue][n], item)

\* C8: every raw record is accounted for after the call: it went into an
\* output record of its venue, or it was dropped and the notes or the
\* validation report hold a trace of it.
C8_NoRecordLostWithoutTrace ==
    pc = "done" =>
        \A venue \in DOMAIN extracted_data :
            \A k \in DOMAIN extracted_data[venue] :
                \/ Survives(extracted_data[venue][k])
                \/ LeftTrace(extracted_data[venue][k])

\* the venue's own records make no stage fail: each one that is standardized
\* has an int quantity
SoundAlone(list) ==
    \A k \in DOMAIN list : Survives(list[k]) => list[k].quantity.t = "int"

\* C9: a venue's results depend on its own records only: its output holds
\* records of this venue alone, and records of another venue never take the
\* results of a venue that has records away, whatever stage they make fail.
C9_VenueResultsIndependent ==
    /\ \A venue \in DOMAIN standardized_data :
           \A k \in DOMAIN standardized_data[venue] :
               standardized_data[venue][k].venue = venue
    /\ pc = "raised" =>
           \A venue \in DOMAIN extracted_data :
               extracted_data[venue] # <<>> => ~SoundAlone(extracted_data[venue])

\* the issues of the report that are about the id x
IssuesAbout(issues, x) == {n \in DOMAIN issues : EndsWith(issues[n], " for item: " \o x)}

\* the number of the five rules the record breaks, each rule counted alone
RulesBroken(item) ==
    (IF item.manufacturer \in {"", "Unknown"} THEN 1 ELSE 0)
    + (IF item.model \in {"", "Unknown"} THEN 1 ELSE 0)
    + (IF item.quantity.n <= 0 THEN 1 ELSE 0)
    + (IF item.category \notin AllowedCategories THEN 1 ELSE 0)
    + (IF item.confidence_score < LowConfidenceTenths THEN 1 ELSE 0)

RECURSIVE RulesBrokenById(_, _, _)
\* the rules broken by the records of items from position k on that carry the id x
RulesBrokenById(items, x, k) ==
    IF k > Len(items) THEN 0
    ELSE (IF items[k].id = x THEN RulesBroken(items[k]) ELSE 0)
         + RulesBrokenById(items, x, k + 1)

\* manufacturer "Unknown", quantity 0, confidence 0.2, a known model and a
\* valid category
ThreeRulesRecord(item) ==
    /\ item.manufacturer = "Unknown"
    /\ item.quantity = PyInt(0)
    /\ item.confidence_score = 2
    /\ item.model \notin {"", "Unknown"}
    /\ item.category \in AllowedCategories

\* C10: the five rules are evaluated independently for each record: a venue's
\* report holds one issue for every rule a record breaks, and a record with
\* manufacturer "Unknown", quantity 0 and confidence 0.2 yields exactly the
\* three issues missing manufacturer, invalid quantity and low confidence.
C10_RulesEvaluatedIndependently ==
    \A venue \in DOMAIN validation_report :
        \A k \in DOMAIN standardized_data[venue] :
            LET item == standardized_data[venue][k]
                issues == validation_report[venue]
            IN  /\ Cardinality(IssuesAbout(issues, item.id))
                       = RulesBrokenById(standardized_data[venue], item.id, 1)
                /\ (ThreeRulesRecord(item)
                    /\ Cardinality(WithId(standardized_data[venue], item.id)) = 1)
                   => {issues[n] : n \in IssuesAbout(issues, item.id)}
                          = {"Missing manufacturer for item: " \o item.id,
                             "Invalid quantity for item: " \o item.id,
                             "Low confidence score (0.2) for item: " \o item.id}

\* a record with manufacturer "Unknown", quantity 0 and confidence 0.2 has
\* been validated and the report holds three issues about it
C10_ThreeIssuesReported ==
    \E venue \in DOMAIN validation_report :
        \E k \in DOMAIN standardized_data[venue] :
            /\ ThreeRulesRecord(standardized_data[venue][k])
            /\ Cardinality(WithId(standardized_data[venue], standardized_data[venue][k].id)) = 1
            /\ Cardinality(IssuesAbout(validation_report[venue],
                                       standardized_data[venue][k].id)) = 3

\* every record validate_standardized_data is given is well formed: its
\* quantity is an int
WellFormed(data) ==
    \A venue \in DOMAIN data : \A k \in DOMAIN data[venue] : data[venue][k].quantity.t = "int"

\* C11: validate_standardized_data is diagnostic only: no step of it changes
\* a field of a record or the mapping it was given, and given well-formed
\* records no step of it raises.
C11_ValidationOnlyReads ==
    [][pc = "validate" =>
          /\ standardized_data' = standardized_data
          /\ extracted_data' = extracted_data
          /\ WellFormed(standardized_data) => pc' # "raised"]_vars

\* well-formed records have been validated to the end and the report holds
\* an issue about one of them
C11_WellFormedValidated ==
    /\ pc = "done"
    /\ WellFormed(standardized_data)
    /\ \E venue \in DOMAIN validation_report :
           /\ standardized_data[venue] # <<>>
           /\ validation_report[venue] # <<>>

RECURSIVE FirstOccurrences(_, _, _)
\* the values of keys[k..upto - 1] that occur at no earlier position of keys,
\* in their order: the order of a dict's keys after these insertions
FirstOccurrences(keys, upto, k) ==
    IF k >= upto \/ k > Len(keys) THEN <<>>
    ELSE (IF \E j \in 1..(k - 1) : keys[j] = keys[k] THEN <<>> ELSE <<keys[k]>>)
         \o FirstOccurrences(keys, upto, k + 1)

\* C15: at every step of _merge_duplicate_items the merged records are one
\* per distinct merge key seen so far, in the order of each key's first
\* occurrence in the input: a later duplicate adds no entry and moves none.
\* The list stored for the venue keeps that order.
C15_FirstOccurrenceOrder ==
    pc = "merge" =>
        [m \in DOMAIN merged_items |-> merged_items[m].key]
            = FirstOccurrences(MergeKeys(standardized_items, 1), item_pos, 1)

\* three records were merged, the third a duplicate of the first with another
\* key between them: two entries, the first key's entry first
C15_DuplicateAfterOther ==
    /\ MergeLoopDone
    /\ Len(standardized_items) = 3
    /\ merge_key(standardized_items[1]) = merge_key(standardized_items[3])
    /\ merge_key(standardized_items[1]) # merge_key(standardized_items[2])
    /\ Len(merged_items) = 2
    /\ merged_items[1].key = merge_key(standardized_items[1])
    /\ Len(merged_items[1].item.source_documents) = 2

\* the dict holds the key
HasKey(items, key) == \E n \in DOMAIN items : items[n][1] = key

\* the record at position k is the last one below upto, among those at pos,
\* whose specifications hold the key
LastWithKey(items, pos, k, key) ==
    /\ k \in pos
    /\ HasKey(items[k].specifications, key)
    /\ \A j \in pos : j > k => ~HasKey(items[j].specifications, key)

\* C20: at every step of the merge the specifications of a merged record are
\* those of the records merged into it, key by key: every key of one of them
\* is kept, and a key that several of them hold has the value of the last of
\* them in input order.
C20_SpecificationsLastWins ==
    pc = "merge" =>
        \A m \in DOMAIN merged_items :
            LET pos == KeyPositions(MergeKeys(standardized_items, 1), merged_items[m].key,
                                    item_pos)
                specs == merged_items[m].item.specifications
            IN  /\ \A n \in DOMAIN specs :
                       \E k \in pos :
                           /\ LastWithKey(standardized_items, pos, k, specs[n][1])
                           /\ Lookup(standardized_items[k].specifications, specs[n][1])
                                  = specs[n][2]
                /\ \A k \in pos : \A n \in DOMAIN standardized_items[k].specifications :
                       HasKey(specs, standardized_items[k].specifications[n][1])
                /\ \A a, b \in DOMAIN specs : a # b => specs[a][1] # specs[b][1]

\* two records with different values for one key have been merged, and a key
\* that only one of them holds is in the merged record too
C20_CollidingKeyMerged ==
    /\ pc = "merge"
    /\ \E m \in DOMAIN merged_items :
           \E j, k \in KeyPositions(MergeKeys(standardized_items, 1), merged_items[m].key,
                                    item_pos) :
               /\ j < k
               /\ \E n \in DOMAIN standardized_items[j].specifications :
                      LET key == standardized_items[j].specifications[n][1] IN
                      /\ HasKey(standardized_items[k].specifications, key)
                      /\ Lookup(standardized_items[k].specifications, key)
                             # standardized_items[j].specifications[n][2]
               /\ \E n \in DOMAIN standardized_items[k].specifications :
                      ~HasKey(standardized_items[j].specifications,
                              standardized_items[k].specifications[n][1])
               /\ Len(merged_items[m].item.specifications) >= 2

RECURSIVE DocumentsOf(_, _, _, _, _)
\* the source documents of the records of items at the positions from k to
\* upto - 1 whose merge key is key, in input order
DocumentsOf(items, keys, key, upto, k) ==
    IF k >= upto \/ k > Len(items) THEN <<>>
    ELSE (IF keys[k] = key THEN items[k].source_documents ELSE <<>>)
         \o DocumentsOf(items, keys, key, upto, k + 1)

\* the merged record's source documents in the order of their discovery: the
\* list one of the possible runs returns for list(set(...))
InDiscoveryOrder(m) ==
    LET docs == DocumentsOf(standardized_items, MergeKeys(standardized_items, 1),
                            merged_items[m].key, item_pos, 1)
    IN  merged_items[m].item.source_documents = FirstOccurrences(docs, Len(docs) + 1, 1)

\* C14: the result is determined by the input and the taxonomy alone. Every
\* run on one input then agrees with the run in which each list(set(...))
\* comes in discovery order, so at every merge step each merged record's
\* source documents are in that order, and every record is standardized to
\* the same values under every iteration order of the category set.
C14_ResultDeterminedByInput ==
    /\ pc = "merge" => \A m \in DOMAIN merged_items : InDiscoveryOrder(m)
    /\ \A venue \in DOMAIN extracted_data : \A k \in DOMAIN extracted_data[venue] :
           Survives(extracted_data[venue][k]) =>
               \A o \in DOMAIN CategoryOrders :
                   Standardized(extracted_data[venue][k], CategoryOrders[o])
                       = Standardized(extracted_data[venue][k], category_list)

\* the greatest confidence_score of the venue's raw records that are
\* standardized to the merge key of the record
RawConfidence(venue, record) ==
    LET same == {k \in DOMAIN extracted_data[venue] :
                    /\ Survives(extracted_data[venue][k])
                    /\ merge_key(Standardized(extracted_data[venue][k], category_list))
                           = merge_key(record)}
    IN  CHOOSE c \in {extracted_data[venue][k].confidence_score : k \in same} :
            \A k \in same : extracted_data[venue][k].confidence_score <= c

\* the report of the record's venue holds an issue about its confidence
ConfidenceIssue(venue, record) ==
    \E n \in DOMAIN validation_report[venue] :
        /\ Contains(lower(validation_report[venue][n]), "confidence")
        /\ EndsWith(validation_report[venue][n], " for item: " \o record.id)

\* C12: a confidence_score outside [0, 1] is never clamped: an output record
\* carries the greatest score of the raw records merged into it, as it came;
\* and the validator reports an issue for every record whose score is below
\* 0 or above 1.
C12_OutOfRangeConfidenceFlagged ==
    /\ \A venue \in DOMAIN standardized_data : \A k \in DOMAIN standardized_data[venue] :
           standardized_data[venue][k].confidence_score
               = RawConfidence(venue, standardized_data[venue][k])
    /\ pc = "done" =>
           \A venue \in DOMAIN standardized_data : \A k \in DOMAIN standardized_data[venue] :
               (\/ standardized_data[venue][k].confidence_score < 0
                \/ standardized_data[venue][k].confidence_score > 10)
               => ConfidenceIssue(venue, standardized_data[venue][k])

\* C13: the field normalizers are idempotent: the manufacturer, model,
\* category and equipment type of a standardized record, fed to the same
\* normalizers again, come back unchanged.
C13_NormalizersIdempotent ==
    \A k \in DOMAIN standardized_items :
        LET item == standardized_items[k] IN
        /\ _standardize_manufacturer(PyStr(item.manufacturer)) = item.manufacturer
        /\ _standardize_model(PyStr(item.model)) = item.model
        /\ _standardize_category(PyStr(item.category), PyStr(item.equipment_type),
                                 category_list) = item.category
        /\ _standardize_equipment_type(PyStr(item.equipment_type), item.category)
               = item.equipment_type

\* the venues given one raw record and holding one standardized record: the
\* second is the first standardized
SingleRecordVenues ==
    {venue \in DOMAIN standardized_data :
        Len(extracted_data[venue]) = 1 /\ Len(standardized_data[venue]) = 1}

\* the order in which the categories are declared
DeclarationOrder == <<"lighting", "sound", "video">>

\* a keyword of the category occurs in the lower-cased equipment type
HasKeywordOf(type_lower, category) ==
    \E c \in DOMAIN EQUIPMENT_CATEGORIES :
        /\ EQUIPMENT_CATEGORIES[c].category = category
        /\ \E k \in DOMAIN EQUIPMENT_CATEGORIES[c].keywords :
               Contains(type_lower, EQUIPMENT_CATEGORIES[c].keywords[k])

\* the category string of the raw record is a str that is no category name
NoExactCategory(item) ==
    item.category.t = "str" /\ lower(strip(item.category.s)) \notin CategoryNames

\* C16: when the category string is no exact category name and the equipment
\* type holds keywords, the category is the first one in declaration order
\* (lighting, sound, video) with a keyword in the type; category "" with type
\* "LED Moving Head Wash" gives lighting.
C16_FirstDeclaredCategoryWins ==
    \A venue \in SingleRecordVenues :
        LET item == extracted_data[venue][1]
            category == standardized_data[venue][1].category
            type_lower == lower(item.equipment_type.s)
        IN  /\ (/\ NoExactCategory(item)
                /\ item.equipment_type.t = "str"
                /\ \E n \in DOMAIN DeclarationOrder :
                       HasKeywordOf(type_lower, DeclarationOrder[n]))
               => \E n \in DOMAIN DeclarationOrder :
                      /\ category = DeclarationOrder[n]
                      /\ HasKeywordOf(type_lower, DeclarationOrder[n])
                      /\ \A j \in 1..(n - 1) : ~HasKeywordOf(type_lower, DeclarationOrder[j])
            /\ (item.category = PyStr("") /\ item.equipment_type = PyStr("LED Moving Head Wash"))
               => category = "lighting"

\* a record of type "Monitor", which holds a keyword of sound and one of
\* video, with a category that is no category name, came out as sound
C16_MonitorIsSound ==
    \E venue \in SingleRecordVenues :
        /\ NoExactCategory(extracted_data[venue][1])
        /\ extracted_data[venue][1].equipment_type = PyStr("Monitor")
        /\ HasKeywordOf("monitor", "sound")
        /\ HasKeywordOf("monitor", "video")
        /\ standardized_data[venue][1].category = "sound"

\* the manufacturer string cleaned as _standardize_manufacturer cleans it
ManufacturerClean(item) == lower(strip(item.manufacturer.s))

\* the manufacturer is a non-empty str that is no exact alias
NoExactAlias(item) ==
    /\ item.manufacturer.t = "str"
    /\ item.manufacturer.s # ""
    /\ DirectManufacturer(ManufacturerClean(item), 1) = ""

\* what corporate-suffix stripping leaves of the cleaned manufacturer
SuffixStripped(manufacturer_clean) ==
    LET cleaned == strip(SubChars(NotWordNotSpace, "",
                            RemoveWords(manufacturer_clean, CorporateSuffixes, 1), 1))
    IN  IF cleaned # "" THEN title(cleaned) ELSE "Unknown"

\* C17: a manufacturer that is no exact alias becomes the best-matching
\* canonical name when its similarity score is at least 80, and falls through
\* to corporate-suffix stripping when the score is below 80; "sonyab" scores
\* exactly 80 and is accepted, "panasonxy" scores 78 and is rejected.
C17_ThresholdEightyInclusive ==
    \A venue \in SingleRecordVenues :
        LET item == extracted_data[venue][1]
            manufacturer == standardized_data[venue][1].manufacturer
            match == extractOne(ManufacturerClean(item), all_standard_names)
        IN  NoExactAlias(item) =>
                /\ match.score >= 80 => manufacturer = title(match.choice)
                /\ match.score < 80 => manufacturer = SuffixStripped(ManufacturerClean(item))
                /\ item.manufacturer.s = "sonyab" => match.score = 80 /\ manufacturer = "Sony"
                /\ item.manufacturer.s = "panasonxy"
                       => match.score = 78 /\ manufacturer = "Panasonxy"

\* a manufacturer scoring exactly 80 was resolved to the canonical name
C17_ScoreEightyAccepted ==
    \E venue \in SingleRecordVenues :
        /\ NoExactAlias(extracted_data[venue][1])
        /\ extractOne(ManufacturerClean(extracted_data[venue][1]), all_standard_names).score
               = 80
        /\ standardized_data[venue][1].manufacturer = "Sony"

\* the raw specifications hold the value under a key that is standardized to key
RawSpecification(item, key, value) ==
    \E n \in DOMAIN item.specifications :
        /\ _standardize_spec_key(item.specifications[n][1]) = key
        /\ item.specifications[n][2] = PyStr(value)

\* C18: specification values are converted by unit: under power "1.5kW"
\* becomes "1500.0W", "0.75 kW" becomes "750.0W" and "2200W" becomes
\* "2200.0W"; under weight "10 lbs" becomes "4.5kg" and "3 kg" becomes "3.0kg".
C18_UnitsConverted ==
    \A venue \in SingleRecordVenues :
        LET item == extracted_data[venue][1]
            specs == standardized_data[venue][1].specifications
        IN  /\ RawSpecification(item, "power", "1.5kW") => Lookup(specs, "power") = "1500.0W"
            /\ RawSpecification(item, "power", "0.75 kW") => Lookup(specs, "power") = "750.0W"
            /\ RawSpecification(item, "power", "2200W") => Lookup(specs, "power") = "2200.0W"
            /\ RawSpecification(item, "weight", "10 lbs") => Lookup(specs, "weight") = "4.5kg"
            /\ RawSpecification(item, "weight", "3 kg") => Lookup(specs, "weight") = "3.0kg"

\* a record with "1.5kW" and "10 lbs" came out with "1500.0W" and "4.5kg"
C18_KilowattsAndPoundsConverted ==
    \E venue \in SingleRecordVenues :
        /\ RawSpecification(extracted_data[venue][1], "power", "1.5kW")
        /\ RawSpecification(extracted_data[venue][1], "weight", "10 lbs")
        /\ standardized_data[venue][1].specifications
               = <<<<"power", "1500.0W">>, <<"weight", "4.5kg">>>>

\* the report of the venue holds the issue about the record
Reported(venue, rule, record) ==
    InSeq(rule \o " for item: " \o record.id, validation_report[venue])

\* C19: a record whose manufacturer or model is missing, null or empty goes
\* through every stage without an error: no stage logs a failure or raises,
\* the field becomes "Unknown", and the validator reports the record as
\* missing it. (The records found hold no other defect.)
C19_MissingFieldsTolerated ==
    /\ error_log = <<>>
    /\ raised = ""
    /\ \A venue \in DOMAIN standardized_data : \A k \in DOMAIN standardized_data[venue] :
           /\ standardized_data[venue][k].manufacturer # ""
           /\ standardized_data[venue][k].model # ""
    /\ pc = "done" =>
           \A venue \in DOMAIN standardized_data : \A k \in DOMAIN standardized_data[venue] :
               /\ standardized_data[venue][k].manufacturer = "Unknown"
                      => Reported(venue, "Missing manufacturer", standardized_data[venue][k])
               /\ standardized_data[venue][k].model = "Unknown"
                      => Reported(venue, "Missing model", standardized_data[venue][k])

RECURSIVE NotesOf(_, _, _, _, _)
\* the standardization notes of the records of items at the positions from k
\* to upto - 1 whose merge key is key, in input order
NotesOf(items, keys, key, upto, k) ==
    IF k >= upto \/ k > Len(items) THEN <<>>
    ELSE (IF keys[k] = key THEN items[k].standardization_notes ELSE <<>>)
         \o NotesOf(items, keys, key, upto, k + 1)

\* C21: at every step of the merge, the source_documents of a merged record
\* are exactly the source documents of the records folded into it, each once,
\* and its standardization_notes are the notes of those records concatenated
\* in processing order, duplicates kept.
C21_DocumentsUnionNotesConcatenated ==
    pc = "merge" =>
        \A m \in DOMAIN merged_items :
            /\ SeqToSet(merged_items[m].item.source_documents)
                   = SeqToSet(DocumentsOf(standardized_items, MergeKeys(standardized_items, 1),
                                          merged_items[m].key, item_pos, 1))
            /\ Cardinality(SeqToSet(merged_items[m].item.source_documents))
                   = Len(merged_items[m].item.source_documents)
            /\ merged_items[m].item.standardization_notes
                   = NotesOf(standardized_items, MergeKeys(standardized_items, 1),
                             merged_items[m].key, item_pos, 1)

\* two records from different documents were folded, and one note occurs
\* twice in the folded notes
C21_TwoDocumentsFolded ==
    /\ pc = "merge"
    /\ \E m \in DOMAIN merged_items :
           /\ Len(merged_items[m].item.source_documents) = 2
           /\ \E a, b \in DOMAIN merged_items[m].item.standardization_notes :
                  /\ a < b
                  /\ merged_items[m].item.standardization_notes[a]
                         = merged_items[m].item.standardization_notes[b]

\* the score of the category string against a category name
CategoryScore(item, name) ==
    fuzz_ratio(full_process(lower(strip(item.category.s))), full_process(name))

\* the category names the approximate match can give: those of the highest
\* score, when it reaches 70
FuzzyCategories(item) ==
    {name \in CategoryNames :
        /\ CategoryScore(item, name) >= 70
        /\ \A other \in CategoryNames : CategoryScore(item, other) <= CategoryScore(item, name)}

\* the equipment type of the record holds a keyword of some category
TypeHasKeyword(item) ==
    \E n \in DOMAIN DeclarationOrder :
        HasKeywordOf(lower(item.equipment_type.s), DeclarationOrder[n])

\* C22: the category of a record is settled by the first step that succeeds:
\* the category string when it is a category name (case-insensitive), else a
\* category with a keyword in the equipment type, else the category name the
\* string matches approximately with a score of 70 or more, else "other".
\* A keyword in the type therefore wins over a fuzzy match of the string.
C22_CategoryStepsInOrder ==
    \A venue \in SingleRecordVenues :
        LET item == extracted_data[venue][1]
            category == standardized_data[venue][1].category
        IN  (item.category.t = "str" /\ item.equipment_type.t = "str") =>
                IF ~NoExactCategory(item) THEN category = lower(strip(item.category.s))
                ELSE IF TypeHasKeyword(item)
                THEN HasKeywordOf(lower(item.equipment_type.s), category)
                ELSE IF FuzzyCategories(item) # {} THEN category \in FuzzyCategories(item)
                ELSE category = "other"

\* a record whose category "vidoe" matches video with score 80 and whose type
\* "Monitor" holds a keyword came out as sound, and the same category with
\* the type "Truss", which holds none, came out as video in another run
C22_InferenceBeatsFuzzy ==
    /\ \E venue \in SingleRecordVenues :
           /\ extracted_data[venue][1].category = PyStr("vidoe")
           /\ extracted_data[venue][1].equipment_type = PyStr("Monitor")
           /\ FuzzyCategories(extracted_data[venue][1]) = {"video"}
           /\ standardized_data[venue][1].category = "sound"
    /\ CategoryScore(Raw(PyStr("Shure"), PyStr("SM-58"), PyInt(1), PyStr("Truss"),
                         PyStr("vidoe"), <<>>, "a.pdf", 5), "video") = 80
    /\ ~HasKeywordOf("truss", "video")

\* a record whose category string matches a name only approximately, with a
\* type that holds no keyword, took the matched name
FuzzyStepReached ==
    \E venue \in SingleRecordVenues :
        /\ extracted_data[venue][1].category = PyStr("vidoe")
        /\ extracted_data[venue][1].equipment_type = PyStr("Truss")
        /\ standardized_data[venue][1].category = "video"

\* C23: an explicit category string is preferred over inference from the
\* equipment type, even when it matches a category name only approximately:
\* a record whose category string matches a name with a score of 70 or more
\* gets that name whatever its equipment type; the inference from the type
\* decides only for the other records.
C23_ExplicitCategoryPreferred ==
    \A venue \in SingleRecordVenues :
        LET item == extracted_data[venue][1]
            category == standardized_data[venue][1].category
        IN  (item.category.t = "str" /\ item.equipment_type.t = "str") =>
                /\ FuzzyCategories(item) # {} => category \in FuzzyCategories(item)
                /\ (FuzzyCategories(item) = {} /\ TypeHasKeyword(item))
                       => HasKeywordOf(lower(item.equipment_type.s), category)

\* C24: the model of a standardized record is never empty and never only
\* whitespace: when the prefix, the suffix and the disallowed characters are
\* stripped and nothing is left, the model is "Unknown".
C24_ModelNeverEmpty ==
    \A venue \in DOMAIN standardized_data : \A k \in DOMAIN standardized_data[venue] :
        strip(standardized_data[venue][k].model) # ""

\* the raw records of the venue in work that the loop has standardized so far
StandardizedSoFar ==
    SelectSeq(SubSeq(extracted_data[VenueNames[venue_pos]], 1, item_pos - 1), Survives)

\* C25: the standardized record of a raw record carries the raw record's
\* quantity, confidence_score and venue unchanged, whatever they are, has the
\* raw record's one source document as its source_documents, and has no
\* features, applications or compatibility.
C25_FieldsCopiedVerbatim ==
    (pc = "standardize" /\ venue_pos <= Len(VenueNames)) =>
        /\ Len(standardized_items) = Len(StandardizedSoFar)
        /\ \A k \in DOMAIN standardized_items :
               /\ standardized_items[k].quantity = StandardizedSoFar[k].quantity
               /\ standardized_items[k].confidence_score = StandardizedSoFar[k].confidence_score
               /\ standardized_items[k].venue = StandardizedSoFar[k].venue
               /\ standardized_items[k].venue = VenueNames[venue_pos]
               /\ standardized_items[k].source_documents
                      = <<StandardizedSoFar[k].source_document>>
               /\ standardized_items[k].features = <<>>
               /\ standardized_items[k].applications = <<>>
               /\ standardized_items[k].compatibility = <<>>

\* records with a missing quantity, a negative one and one given as text
\* have been standardized, after a record that was dropped
C25_OddQuantitiesCopied ==
    /\ pc = "standardize"
    /\ \E k \in DOMAIN standardized_items :
           /\ standardized_items[k].quantity \in {PyNone, PyInt(-1), PyStr("12")}
           /\ standardized_items[k].source_documents = <<"b.pdf">>
    /\ Len(standardized_items) < item_pos - 1

\* the note about the field, as the claim words it
FieldNote(field, original, standardized) ==
    field \o " normalized: " \o Format(original) \o " -> " \o standardized

\* the notes hold the note about the field exactly when the standardized
\* value is not the raw one
NotedIffChanged(notes, field, original, standardized) ==
    InSeq(FieldNote(field, original, standardized), notes)
        <=> ~(original.t = "str" /\ original.s = standardized)

\* the four notes about manufacturer, model, category and equipment type
FieldNotes(raw, record) ==
    {FieldNote("Manufacturer", raw.manufacturer, record.manufacturer),
     FieldNote("Model", raw.model, record.model),
     FieldNote("Category", raw.category, record.category),
     FieldNote("Equipment type", raw.equipment_type, record.equipment_type)}

\* the standardized specifications are not the raw ones: a key or a value
\* was canonicalized
SpecificationsChanged(raw, record) ==
    record.specifications
        # [n \in DOMAIN raw.specifications |->
               <<raw.specifications[n][1], Format(raw.specifications[n][2])>>]

\* the notes of the record are the four field notes, each exactly when the
\* field was changed
FieldNotesExact ==
    (pc = "standardize" /\ venue_pos <= Len(VenueNames)) =>
        \A k \in DOMAIN standardized_items :
            LET raw == StandardizedSoFar[k]
                record == standardized_items[k]
                notes == record.standardization_notes
            IN  /\ NotedIffChanged(notes, "Manufacturer", raw.manufacturer, record.manufacturer)
                /\ NotedIffChanged(notes, "Model", raw.model, record.model)
                /\ NotedIffChanged(notes, "Category", raw.category, record.category)
                /\ NotedIffChanged(notes, "Equipment type", raw.equipment_type,
                                   record.equipment_type)

\* C26: the notes of a standardized record document every normalization: for
\* manufacturer, model, category and equipment type the note "<Field>
\* normalized: <original> -> <result>" is there exactly when the value was
\* changed, and a record whose specifications were canonicalized (a key or a
\* value changed) has a note about that besides the four field notes.
C26_EveryChangeNoted ==
    (pc = "standardize" /\ venue_pos <= Len(VenueNames)) =>
        \A k \in DOMAIN standardized_items :
            LET raw == StandardizedSoFar[k]
                record == standardized_items[k]
                notes == record.standardization_notes
            IN  /\ NotedIffChanged(notes, "Manufacturer", raw.manufacturer, record.manufacturer)
                /\ NotedIffChanged(notes, "Model", raw.model, record.model)
                /\ NotedIffChanged(notes, "Category", raw.category, record.category)
                /\ NotedIffChanged(notes, "Equipment type", raw.equipment_type,
                                   record.equipment_type)
                /\ SpecificationsChanged(raw, record)
                       => \E n \in DOMAIN notes : notes[n] \notin FieldNotes(raw, record)

\* the fields the grouping reads are of the types it expects
GroupingDefined(items) ==
    \A k \in DOMAIN items : ~GroupKeyRaises(items[k]) /\ items[k].quantity.t = "int"

\* the two raw records agree in lower-cased manufacturer, model and category
SameGroup(a, b) ==
    /\ lower(a.manufacturer.s) = lower(b.manufacturer.s)
    /\ lower(a.model.s) = lower(b.model.s)
    /\ lower(a.category.s) = lower(b.category.s)

\* the positions of the records of items that are in the group of items[k]
GroupOf(items, k) == {j \in DOMAIN items : SameGroup(items[k], items[j])}

RECURSIVE RawQuantitySum(_, _, _)
\* the sum of the quantities of the records of items at the positions in
\* group, from position k on
RawQuantitySum(items, group, k) ==
    IF k > Len(items) THEN 0
    ELSE (IF k \in group THEN items[k].quantity.n ELSE 0) + RawQuantitySum(items, group, k + 1)

\* the record is the fold of the group: the quantity summed, the greatest
\* confidence, every key of the group's specifications with the value of the
\* last record that holds it
FoldOf(record, items, group) ==
    /\ record.quantity = PyInt(RawQuantitySum(items, group, 1))
    /\ \A k \in group : record.confidence_score >= items[k].confidence_score
    /\ \E k \in group : record.confidence_score = items[k].confidence_score
    /\ \A k \in group : \A n \in DOMAIN items[k].specifications :
           HasKey(record.specifications, items[k].specifications[n][1])
    /\ \A n \in DOMAIN record.specifications :
           \E k \in group :
               /\ LastWithKey(items, group, k, record.specifications[n][1])
               /\ Lookup(items[k].specifications, record.specifications[n][1])
                      = record.specifications[n][2]

\* the result of the grouping is one fold per group of the list
GroupedByFields(items, result) ==
    /\ Len(result) = Cardinality({GroupOf(items, k) : k \in DOMAIN items})
    /\ \A k \in DOMAIN items : \E r \in DOMAIN result : FoldOf(result[r], items, GroupOf(items, k))

\* the lists of one document that extract_equipment_data can give the grouping
DocumentLists ==
    {FoundIn(found, Documents[d]) : found \in SeqsUpTo(ExtractItems, MaxFound),
                                    d \in DOMAIN Documents}

\* C27: the grouping of _deduplicate_equipment puts two raw records in one
\* group exactly when they agree in lower-cased manufacturer, model and
\* category: for every list of one document whose fields are of the expected
\* types, the result holds one record per such group, with the group's
\* quantities summed, its specifications united (the later record winning)
\* and its greatest confidence_score.
C27_GroupedExactlyByFields ==
    pc = "extract" =>
        \A items \in DocumentLists :
            GroupingDefined(items) =>
                /\ _deduplicate_equipment(items).error = ""
                /\ GroupedByFields(items, _deduplicate_equipment(items).items)

\* the same with the lists left out in which two records of different groups
\* have one key string
GroupedWhenKeysApart ==
    pc = "extract" =>
        \A items \in DocumentLists :
            (/\ GroupingDefined(items)
             /\ \A a, b \in DOMAIN items :
                    group_key(items[a]) = group_key(items[b]) => SameGroup(items[a], items[b]))
            => /\ _deduplicate_equipment(items).error = ""
               /\ GroupedByFields(items, _deduplicate_equipment(items).items)

\* C28: at every step of _merge_duplicate_items every record folded into a
\* merged record has the id of that merged record: records with different
\* ids are never folded together.
C28_FoldedRecordsShareId ==
    pc = "merge" =>
        \A m \in DOMAIN merged_items :
            \A k \in KeyPositions(MergeKeys(standardized_items, 1), merged_items[m].key,
                                  item_pos) :
                standardized_items[k].id = merged_items[m].item.id

\* two records whose models are spelled differently were folded into one
C28_DifferentSpellingsFolded ==
    /\ pc = "merge"
    /\ \E m \in DOMAIN merged_items :
           \E j, k \in KeyPositions(MergeKeys(standardized_items, 1), merged_items[m].key,
                                    item_pos) :
               /\ standardized_items[j].model # standardized_items[k].model
               /\ standardized_items[j].id = standardized_items[k].id
               /\ merged_items[m].item.quantity
                      = PyAdd(standardized_items[j].quantity, standardized_items[k].quantity)

\* C29: export_equipment_database only reads the standardized data: the call
\* leaves every standardized record as it was, its specifications included,
\* also when it has aggregated one manufacturer/model over several records
\* or venues.
C29_ExportOnlyReads ==
    [][pc = "done" => standardized_data' = standardized_data]_vars

\* the export never changes anything when no two records share an equipment key
ExportReadsWhenKeysDistinct ==
    [][(/\ pc = "done"
        /\ \A a, b \in DOMAIN ItemPositions(standardized_data, 1) :
               LET p == ItemPositions(standardized_data, 1) IN
               a # b => equipment_key(standardized_data[p[a][1]][p[a][2]])
                            # equipment_key(standardized_data[p[b][1]][p[b][2]]))
       => standardized_data' = standardized_data]_vars

\* C30: two distinct PDF entries that are both downloaded in one run of
\* download_pdfs never have the same local_path, also when they have the same
\* venue and title: no two tasks return one filepath, and after the run no two
\* downloaded entries share their local_path.
C30_LocalPathsDistinct ==
    /\ \A a, b \in DOMAIN results :
           (a # b /\ results[a] # "" /\ results[b] # "") => results[a] # results[b]
    /\ pc = "downloaded" =>
           \A a, b \in DOMAIN venue_pdfs :
               (a # b /\ venue_pdfs[a].downloaded /\ venue_pdfs[b].downloaded)
                   => venue_pdfs[a].local_path # venue_pdfs[b].local_path

\* the same for the runs in which one download runs at a time
LocalPathsDistinctWhenSerial ==
    max_concurrent = 1 => C30_LocalPathsDistinct

\* the same for the runs in which no two entries have one cleaned venue and title
LocalPathsDistinctWhenNamesApart ==
    (\A a, b \in DOMAIN venue_pdfs :
         a # b => BaseFilename(venue_pdfs[a]) # BaseFilename(venue_pdfs[b]))
    => C30_LocalPathsDistinct

=============================================================================
